---- MODULE Spec2Model ----
(***************************************************************************)
(* Model of the score aggregation engine of the presentation evaluator:    *)
(* evaluator/scoring_system.py (class ScoringSystem) with the weights of   *)
(* config.py (Config.SCORING_WEIGHTS).                                     *)
(*                                                                         *)
(* Numbers.  The program computes with Python floats.  The model uses      *)
(* exact fixed-point integers:                                             *)
(*   raw / component scores   in tenths        (Unit       = 1.0)          *)
(*   weights                  in hundredths    (WeightUnit = 1.0)          *)
(*   weighted / total scores  in thousandths   (OneTotal   = 1.0)          *)
(*   percentage_score         in thousandths of a percent                  *)
(*   ranking factors          in twentieths    (they are halves of sums)   *)
(*   ranking scores           in 1/20000       (RankingOne = 1.0)          *)
(* A quotient that is not an integer (a contribution) is kept as a         *)
(* fraction [num, den].  Floating-point rounding is not modelled.          *)
(*                                                                         *)
(* Python values.  A value of the raw results object is a record           *)
(* [kind, v]: kind "num" (a float, v its value), "nan" (float nan), "str"  *)
(* (a non-empty, non-numeric string), "none" (None), "bool" (v = 1 for     *)
(* True), "list" (a list of v strings).  An entry of the results object    *)
(* has a third field, fields: for kind "dict" the mapping of the           *)
(* structured result, otherwise the empty mapping.  A Python exception is  *)
(* the outcome [exc |-> TRUE] of the operator that raises it.              *)
(*                                                                         *)
(* Concurrent calls.  The attributes of the engine are the variable        *)
(* scoring_system; a call of calculate_final_score by a caller advances    *)
(* one statement of its try block at a time, interleaved with the other    *)
(* callers' statements.  A weight of the engine is a Python value (a       *)
(* number in hundredths, a string or None; a NaN weight is not modelled).  *)
(*                                                                         *)
(* Lists of presentations.  rank_presentations writes into the dicts of    *)
(* the list it is given and returns a new list of the same dicts.  The     *)
(* dicts live in presentation_objects under their identities and a list    *)
(* is the sequence of the identities of its elements.  The presentations   *)
(* ranked carry numbers or malformed values, no NaN.                       *)
(***************************************************************************)
EXTENDS Integers, Sequences, FiniteSets, TLC

VARIABLES evaluation_results, final_results, pc,
          presentation_objects, presentations, ranked_presentations,
          scoring_system, calls

vars == <<evaluation_results, final_results, pc,
          presentation_objects, presentations, ranked_presentations,
          scoring_system, calls>>

\* The variables of the concurrent calls on one engine: the attributes of
\* the ScoringSystem object and, for each caller, the position of its call of
\* calculate_final_score with the call's argument and local final_results.
engine_vars == <<scoring_system, calls>>

\* The variables of rank_presentations: the dict objects of the list
\* elements (by identity), the caller's list and the returned list, both
\* lists of identities.
ranking_vars == <<presentation_objects, presentations, ranked_presentations>>

----------------------------------------------------------------------------
(* Units *)

\* The float 1.0 in score units (tenths): the upper clamp limit.
Unit == 10

\* The float 1.0 in weight units (hundredths).
WeightUnit == 100

\* The float 1.0 in total-score units (thousandths).
OneTotal == Unit * WeightUnit

\* The factor of percentage_score.
Percent == 100

----------------------------------------------------------------------------
(* Python values *)

NumV(n) == [kind |-> "num", v |-> n]
StrV == [kind |-> "str", v |-> 0]
NoneV == [kind |-> "none", v |-> 0]
NanV == [kind |-> "nan", v |-> 0]
BoolV(b) == [kind |-> "bool", v |-> IF b THEN 1 ELSE 0]
ListV(n) == [kind |-> "list", v |-> n]

NoFields == [f \in {} |-> NoneV]

\* A bare (non-dict) entry of the results object holding value x.
Bare(x) == [kind |-> x.kind, v |-> x.v, fields |-> NoFields]

\* A structured entry (a dict) with the mapping f.
Dict(f) == [kind |-> "dict", v |-> 0, fields |-> f]

\* The value an entry stands for when it is not a dict.
ValueOf(e) == [kind |-> e.kind, v |-> e.v]

\* A computation that returned x, and one that raised.
Ok(x) == [exc |-> FALSE, val |-> x]
Raised == [exc |-> TRUE, val |-> NoneV]

\* dict.get(key, default) on a mapping.
Get(f, key, default) == IF key \in DOMAIN f THEN f[key] ELSE default

\* f with key k bound to e.
Put(f, k, e) == [x \in DOMAIN f \cup {k} |-> IF x = k THEN e ELSE f[x]]

\* f without key k.
Drop(f, k) == [x \in DOMAIN f \ {k} |-> f[x]]

\* evaluation_results.get(key, {}): a missing entry reads as the empty dict.
GetEntry(results, key) == Get(results, key, Dict(NoFields))

\* isinstance(x, dict)
IsDict(e) == e.kind = "dict"

\* Python truthiness of a non-dict value.
Truthy(x) ==
  CASE x.kind = "num" -> x.v # 0
    [] x.kind = "bool" -> x.v # 0
    [] x.kind = "list" -> x.v # 0
    [] x.kind = "none" -> FALSE
    [] OTHER -> TRUE

\* float(x): a non-numeric string, None and a list raise.
Float(x) ==
  CASE x.kind \in {"num", "bool"} -> Ok(NumV(x.v * (IF x.kind = "bool" THEN Unit ELSE 1)))
    [] x.kind = "nan" -> Ok(NanV)
    [] OTHER -> Raised

\* float(x) if x else 0.0
FloatOrZero(x) == IF Truthy(x) THEN Float(x) ELSE Ok(NumV(0))

Min(a, b) == IF a < b THEN a ELSE b
Max(a, b) == IF a > b THEN a ELSE b
Abs(a) == IF a < 0 THEN -a ELSE a

\* Faulty variant of Clamp01: the upper limit is forgotten, max(0.0, x).
Clamp01NoCeiling(x) ==
  CASE x.kind = "num" -> Ok(Max(0, x.v))
    [] x.kind = "bool" -> Ok(x.v * Unit)
    [] x.kind = "nan" -> Ok(0)
    [] OTHER -> Raised

\* max(0.0, min(x, 1.0)): comparing a string, None or a list with a float
\* raises; min(nan, 1.0) is nan and max(0.0, nan) is 0.0.
Clamp01(x) ==
  CASE x.kind = "num" -> Ok(Max(0, Min(x.v, Unit)))
    [] x.kind = "bool" -> Ok(x.v * Unit)
    [] x.kind = "nan" -> Ok(0)
    [] OTHER -> Raised

----------------------------------------------------------------------------
(* Configuration *)

\* The component names, in the insertion order of component_scores.
Components ==
  <<"ps_similarity", "feasibility", "attractiveness", "image_analysis",
    "link_analysis", "llm_penalty">>

ComponentSet == {Components[i] : i \in 1..Len(Components)}

\* Faulty variant of SCORING_WEIGHTS: the penalty weighs -0.10.
SCORING_WEIGHTS_LightPenalty ==
  [ps_similarity |-> 25, feasibility |-> 20, attractiveness |-> 15,
   image_analysis |-> 15, link_analysis |-> 10, llm_penalty |-> -10]

\* Faulty variant of SCORING_WEIGHTS: the penalty weighs +0.15.
SCORING_WEIGHTS_PenaltyAdded ==
  [ps_similarity |-> 25, feasibility |-> 20, attractiveness |-> 15,
   image_analysis |-> 15, link_analysis |-> 10, llm_penalty |-> 15]

\* Config.SCORING_WEIGHTS, in hundredths.
SCORING_WEIGHTS ==
  [ps_similarity |-> 25, feasibility |-> 20, attractiveness |-> 15,
   image_analysis |-> 15, link_analysis |-> 10, llm_penalty |-> -15]

\* self.weights
weights == SCORING_WEIGHTS

\* self.thresholds, in thousandths.
thresholds ==
  [excellent |-> 900, very_good |-> 800, good |-> 700, satisfactory |-> 600,
   needs_improvement |-> 400, poor |-> 0]

\* The key of the results object each component is read from.
ResultKey(c) == IF c = "llm_penalty" THEN "llm_detection" ELSE c

\* Faulty variant of OverallField: image_analysis is read from its
\* technical_depth_score sub-metric.
OverallFieldTechnicalDepth(c) ==
  CASE c = "ps_similarity" -> "overall_similarity"
    [] c = "feasibility" -> "overall_feasibility"
    [] c = "attractiveness" -> "overall_attractiveness"
    [] c = "image_analysis" -> "technical_depth_score"
    [] c = "link_analysis" -> "link_quality_score"
    [] c = "llm_penalty" -> "overall_llm_probability"

\* The designated overall-score field of each component's structured result.
OverallField(c) ==
  CASE c = "ps_similarity" -> "overall_similarity"
    [] c = "feasibility" -> "overall_feasibility"
    [] c = "attractiveness" -> "overall_attractiveness"
    [] c = "image_analysis" -> "overall_image_score"
    [] c = "link_analysis" -> "link_quality_score"
    [] c = "llm_penalty" -> "overall_llm_probability"

----------------------------------------------------------------------------
(* _extract_component_scores *)

\* The defaults assigned by the except branch.
DefaultScores == [c \in ComponentSet |-> 0]

\* The value one component's branch stores before the clamping loop.
RawScore(results, c) ==
  LET e == GetEntry(results, ResultKey(c))
  IN IF IsDict(e)
       THEN Ok(Get(e.fields, OverallField(c), NumV(0)))
       ELSE IF c = "llm_penalty"
              THEN Ok(NumV(0))
              ELSE FloatOrZero(ValueOf(e))

\* One component through its branch and the clamping loop.
ExtractOne(results, c) ==
  LET r == RawScore(results, c)
  IN IF r.exc THEN Raised ELSE Clamp01(r.val)

\* Whether the try block of _extract_component_scores raises.
ExtractionRaises(results) == \E c \in ComponentSet : ExtractOne(results, c).exc

\* Faulty variant of extract_component_scores: entries are read with
\* evaluation_results[key], so a missing key raises inside the try block.
extract_component_scores_strict_keys(results) ==
  IF ExtractionRaises(results)
       \/ \E c \in ComponentSet : ResultKey(c) \notin DOMAIN results
    THEN DefaultScores
    ELSE [c \in ComponentSet |-> ExtractOne(results, c).val]

\* Any exception in the try block replaces the
\* whole score set by the defaults.
extract_component_scores(results) ==
  IF ExtractionRaises(results)
    THEN DefaultScores
    ELSE [c \in ComponentSet |-> ExtractOne(results, c).val]

----------------------------------------------------------------------------
(* _calculate_weighted_scores, the total and the grade *)

\* Faulty variant of WeightedScore: the penalty's weight loses its sign.
WeightedScoreUnsigned(score, weight) == score * Abs(weight)

\* weighted_scores[component] = score * self.weights.get(component, 0.0)
WeightedScore(score, weight) == score * weight

calculate_weighted_scores(component_scores) ==
  [c \in DOMAIN component_scores |->
     WeightedScore(component_scores[c], Get(weights, c, 0))]

RECURSIVE SumOver(_, _)
\* The sum of f over the names of the sequence names.
SumOver(f, names) ==
  IF names = <<>> THEN 0 ELSE f[Head(names)] + SumOver(f, Tail(names))

\* Faulty variant of TotalScore: only the positive weighted scores are
\* summed (the breakdown's total_achieved).
TotalScoreAchievedOnly(weighted_scores) ==
  SumOver([c \in DOMAIN weighted_scores |-> Max(0, weighted_scores[c])], Components)

\* sum(weighted_scores.values())
TotalScore(weighted_scores) == SumOver(weighted_scores, Components)

\* Faulty variant of Normalize: the lower limit is forgotten, min(total, 1.0).
NormalizeNoFloor(total_score) == Min(total_score, OneTotal)

\* max(0.0, min(total_score, 1.0))
Normalize(total_score) == Max(0, Min(total_score, OneTotal))

\* normalized_score * 100
PercentageScore(normalized) == normalized * Percent

\* Faulty variant of assign_grade: strict comparisons, so a score exactly on
\* a threshold falls into the band below.
assign_grade_strict(normalized) ==
  IF normalized > thresholds.excellent THEN "A+"
  ELSE IF normalized > thresholds.very_good THEN "A"
  ELSE IF normalized > thresholds.good THEN "B+"
  ELSE IF normalized > thresholds.satisfactory THEN "B"
  ELSE IF normalized > thresholds.needs_improvement THEN "C"
  ELSE "D"

\* self._assign_grade(normalized_score)
assign_grade(normalized) ==
  IF normalized >= thresholds.excellent THEN "A+"
  ELSE IF normalized >= thresholds.very_good THEN "A"
  ELSE IF normalized >= thresholds.good THEN "B+"
  ELSE IF normalized >= thresholds.satisfactory THEN "B"
  ELSE IF normalized >= thresholds.needs_improvement THEN "C"
  ELSE "D"

----------------------------------------------------------------------------
(* _create_score_breakdown *)

\* sum(abs(s) for s in weighted_scores.values())
AbsTotal(weighted_scores) ==
  SumOver([c \in DOMAIN weighted_scores |-> Abs(weighted_scores[c])], Components)

\* Faulty variant of Contribution: the numerator keeps the sign of the
\* weighted score.
ContributionSigned(weighted_score, abs_total) ==
  IF abs_total > 0
    THEN [num |-> weighted_score * Percent, den |-> abs_total]
    ELSE [num |-> 0, den |-> 1]

\* abs(weighted_score) / sum(abs(s) ...) * 100 if that sum > 0 else 0, as the
\* fraction num / den.
Contribution(weighted_score, abs_total) ==
  IF abs_total > 0
    THEN [num |-> Abs(weighted_score) * Percent, den |-> abs_total]
    ELSE [num |-> 0, den |-> 1]

\* sum(score for score in weighted_scores.values() if score > 0)
TotalAchieved(weighted_scores) ==
  SumOver([c \in DOMAIN weighted_scores |-> Max(0, weighted_scores[c])], Components)

\* Faulty variant of PenaltyApplied: the weighted penalty keeps its sign.
PenaltyAppliedSigned(weighted_scores) == Get(weighted_scores, "llm_penalty", 0)

\* abs(weighted_scores.get('llm_penalty', 0.0))
PenaltyApplied(weighted_scores) == Abs(Get(weighted_scores, "llm_penalty", 0))

create_score_breakdown(component_scores, weighted_scores) ==
  LET abs_total == AbsTotal(weighted_scores)
  IN [components |->
        [c \in DOMAIN component_scores |->
           [raw_score |-> component_scores[c],
            weight |-> Get(weights, c, 0),
            weighted_score |-> Get(weighted_scores, c, 0),
            percentage |-> component_scores[c] * Percent,
            contribution |-> Contribution(Get(weighted_scores, c, 0), abs_total)]],
      total_possible |-> OneTotal,
      total_achieved |-> TotalAchieved(weighted_scores),
      penalty_applied |-> PenaltyApplied(weighted_scores)]

----------------------------------------------------------------------------
(* _identify_strengths_weaknesses *)

component_names ==
  [ps_similarity |-> "Problem Statement Alignment",
   feasibility |-> "Project Feasibility",
   attractiveness |-> "Presentation Design",
   image_analysis |-> "Visual Content Quality",
   link_analysis |-> "Supporting Links",
   llm_penalty |-> "Content Originality"]

\* component_name.lower()
LowerName ==
  [ps_similarity |-> "problem statement alignment",
   feasibility |-> "project feasibility",
   attractiveness |-> "presentation design",
   image_analysis |-> "visual content quality",
   link_analysis |-> "supporting links",
   llm_penalty |-> "content originality"]

\* Faulty variant of StrengthsOf: the highest band starts above 0.8 (>), so a
\* score of exactly 0.8 is only "Good".
StrengthsOfExcellentAbove(c, score) ==
  IF c = "llm_penalty"
    THEN IF score < 3
           THEN <<"High content originality (" \o component_names[c] \o ")">>
           ELSE <<>>
    ELSE IF score > 8 THEN <<"Excellent " \o LowerName[c]>>
         ELSE IF score >= 6 THEN <<"Good " \o LowerName[c]>>
         ELSE <<>>

\* The strengths one component appends (none or one), score in tenths.
StrengthsOf(c, score) ==
  IF c = "llm_penalty"
    THEN IF score < 3
           THEN <<"High content originality (" \o component_names[c] \o ")">>
           ELSE <<>>
    ELSE IF score >= 8 THEN <<"Excellent " \o LowerName[c]>>
         ELSE IF score >= 6 THEN <<"Good " \o LowerName[c]>>
         ELSE <<>>

\* Faulty variant of WeaknessesOf: the penalty is flagged from 0.7 on (>=).
WeaknessesOfPenaltyFrom(c, score) ==
  IF c = "llm_penalty"
    THEN IF score < 3 THEN <<>>
         ELSE IF score >= 7
                THEN <<"Potential AI-generated content (" \o component_names[c] \o ")">>
                ELSE <<>>
    ELSE IF score >= 8 THEN <<>>
         ELSE IF score >= 6 THEN <<>>
         ELSE IF score < 4 THEN <<"Poor " \o LowerName[c]>>
         ELSE <<>>

\* The weaknesses one component appends (none or one).
WeaknessesOf(c, score) ==
  IF c = "llm_penalty"
    THEN IF score < 3 THEN <<>>
         ELSE IF score > 7
                THEN <<"Potential AI-generated content (" \o component_names[c] \o ")">>
                ELSE <<>>
    ELSE IF score >= 8 THEN <<>>
         ELSE IF score >= 6 THEN <<>>
         ELSE IF score < 4 THEN <<"Poor " \o LowerName[c]>>
         ELSE <<>>

RECURSIVE StrengthsFrom(_, _)
\* The strengths appended over the loop, in the order of the names.
StrengthsFrom(scores, names) ==
  IF names = <<>>
    THEN <<>>
    ELSE StrengthsOf(Head(names), scores[Head(names)])
           \o StrengthsFrom(scores, Tail(names))

RECURSIVE WeaknessesFrom(_, _)
\* The weaknesses appended over the loop, in the order of the names.
WeaknessesFrom(scores, names) ==
  IF names = <<>>
    THEN <<>>
    ELSE WeaknessesOf(Head(names), scores[Head(names)])
           \o WeaknessesFrom(scores, Tail(names))

\* Faulty variant of IdentifyStrengths: the components are visited from the
\* highest score to the lowest (ties in the configured order).
IdentifyStrengthsByScore(component_scores) ==
  LET before(c, d) ==
        \/ component_scores[c] > component_scores[d]
        \/ /\ component_scores[c] = component_scores[d]
           /\ \E i, j \in 1..Len(Components) :
                i < j /\ Components[i] = c /\ Components[j] = d
      place(c) == 1 + Cardinality({d \in ComponentSet : before(d, c)})
      by_score == [i \in 1..Len(Components) |->
                     CHOOSE c \in ComponentSet : place(c) = i]
  IN StrengthsFrom(component_scores, by_score)

\* The strengths of the returned pair.
IdentifyStrengths(component_scores) == StrengthsFrom(component_scores, Components)

\* Faulty variant of IdentifyWeaknesses: only the first three are kept.
IdentifyWeaknessesTopThree(component_scores) ==
  SubSeq(WeaknessesFrom(component_scores, Components), 1,
         IF Len(WeaknessesFrom(component_scores, Components)) < 3
           THEN Len(WeaknessesFrom(component_scores, Components)) ELSE 3)

\* The weaknesses of the returned pair.
IdentifyWeaknesses(component_scores) == WeaknessesFrom(component_scores, Components)

----------------------------------------------------------------------------
(* _generate_overall_assessment: the sentences of the assessment, in order *)

AssessmentBand(normalized) ==
  IF normalized >= thresholds.excellent
    THEN "Outstanding presentation with excellent execution across all criteria."
  ELSE IF normalized >= thresholds.very_good
    THEN "Very strong presentation with high-quality content and implementation."
  ELSE IF normalized >= thresholds.good
    THEN "Good presentation with solid foundation and clear potential."
  ELSE IF normalized >= thresholds.satisfactory
    THEN "Satisfactory presentation meeting basic requirements with room for improvement."
  ELSE IF normalized >= thresholds.needs_improvement
    THEN "Presentation needs significant improvement in multiple areas."
  ELSE "Presentation requires major revision across most evaluation criteria."

generate_overall_assessment(normalized, strengths, weaknesses) ==
  <<AssessmentBand(normalized)>>
    \o (IF Len(strengths) > 2
          THEN <<" The presentation demonstrates multiple strong points.">>
          ELSE <<>>)
    \o (IF Len(weaknesses) > 2
          THEN <<" Several areas need attention for improvement.">>
          ELSE <<>>)

----------------------------------------------------------------------------
(* _calculate_ranking_factors, in twentieths *)

RankingFactorNames ==
  <<"innovation_score", "technical_depth", "implementation_readiness",
    "presentation_quality", "solution_completeness">>

\* The initial ranking_factors: every factor 0.0.
InitialRankingFactors ==
  [f \in {RankingFactorNames[i] : i \in 1..Len(RankingFactorNames)} |-> NumV(0)]

IsNumeric(x) == x.kind \in {"num", "nan", "bool"}

\* Faulty variant of HalfSum: the sum is not halved, a + b.
HalfSumNotHalved(a, b) ==
  IF IsNumeric(a) /\ IsNumeric(b)
    THEN IF a.kind = "nan" \/ b.kind = "nan"
           THEN Ok(NanV)
           ELSE Ok(NumV(2 * ((IF a.kind = "bool" THEN a.v * Unit ELSE a.v)
                             + (IF b.kind = "bool" THEN b.v * Unit ELSE b.v))))
    ELSE Raised

\* (a + b) / 2: the sum or the division raises unless both are numbers.
HalfSum(a, b) ==
  IF IsNumeric(a) /\ IsNumeric(b)
    THEN IF a.kind = "nan" \/ b.kind = "nan"
           THEN Ok(NanV)
           ELSE Ok(NumV((IF a.kind = "bool" THEN a.v * Unit ELSE a.v)
                        + (IF b.kind = "bool" THEN b.v * Unit ELSE b.v)))
    ELSE Raised

\* A value stored as it is: a number changes unit only (tenths to twentieths).
AsIs(x) == IF x.kind = "num" THEN Ok(NumV(2 * x.v)) ELSE Ok(x)

\* The assignment each factor's statement makes: skip (the collaborator's
\* entry is not a dict), a value, or an exception.
FactorStep(results, factor) ==
  LET feasibility == GetEntry(results, "feasibility")
      ps_similarity == GetEntry(results, "ps_similarity")
      image_analysis == GetEntry(results, "image_analysis")
      attractiveness == GetEntry(results, "attractiveness")
      sub(e, name) == Get(e.fields, name, NumV(0))
      when(e, r) == IF IsDict(e) THEN [skip |-> FALSE, r |-> r]
                    ELSE [skip |-> TRUE, r |-> Ok(NumV(0))]
  IN CASE factor = "innovation_score" ->
            when(feasibility,
                 HalfSum(sub(feasibility, "technical_feasibility"),
                         sub(feasibility, "scalability_score")))
       [] factor = "technical_depth" ->
            when(image_analysis, AsIs(sub(image_analysis, "technical_depth_score")))
       [] factor = "implementation_readiness" ->
            when(feasibility,
                 HalfSum(sub(feasibility, "resource_feasibility"),
                         sub(feasibility, "timeline_feasibility")))
       [] factor = "presentation_quality" ->
            when(attractiveness, AsIs(sub(attractiveness, "overall_attractiveness")))
       [] factor = "solution_completeness" ->
            when(ps_similarity,
                 HalfSum(sub(ps_similarity, "coverage_score"),
                         sub(ps_similarity, "relevance_score")))

RECURSIVE RankingFactorsFrom(_, _, _)
\* The statements of the try block in order: the first exception ends the
\* block and leaves the factors assigned so far.
RankingFactorsFrom(results, factors, names) ==
  IF names = <<>>
    THEN factors
    ELSE LET st == FactorStep(results, Head(names))
         IN IF st.skip
              THEN RankingFactorsFrom(results, factors, Tail(names))
              ELSE IF st.r.exc
                     THEN factors
                     ELSE RankingFactorsFrom(
                            results,
                            [factors EXCEPT ![Head(names)] = st.r.val],
                            Tail(names))

calculate_ranking_factors(results) ==
  RankingFactorsFrom(results, InitialRankingFactors, RankingFactorNames)

----------------------------------------------------------------------------
(* _generate_final_recommendations *)

\* The components whose own recommendations are read, in the code's order.
RecommendationComponents ==
  <<"ps_similarity", "feasibility", "attractiveness", "image_analysis",
    "link_analysis">>

\* recommendations[:10]
MaxRecommendations == 10

\* weaknesses[:3]
TopWeaknesses == 3

\* The bullet character of the recommendation texts is written "*" here.

\* Faulty variant of Take: one element too many, s[:n + 1].
TakeOneMore(s, n) == SubSeq(s, 1, Min(n + 1, Len(s)))

\* s[:n]
Take(s, n) == SubSeq(s, 1, Min(n, Len(s)))

\* The first recommendation of component c: comp_recommendations[0].
FirstRecommendation(c, value) ==
  IF value.kind = "list" THEN "first recommendation of " \o c ELSE "a"

AddressAll(weaknesses) ==
  [i \in 1..Len(weaknesses) |-> "* Address " \o weaknesses[i]]

\* Faulty variant of ComponentRecommendation: the component's own
\* recommendations are never read.
ComponentRecommendationSkipped(results, c) == Ok(<<>>)

\* What one component adds: nothing, its first recommendation, or an
\* exception (len() of a number).
ComponentRecommendation(results, c) ==
  LET data == GetEntry(results, c)
  IN IF IsDict(data) /\ "recommendations" \in DOMAIN data.fields
       THEN LET recs == data.fields["recommendations"]
            IN IF ~Truthy(recs) THEN Ok(<<>>)
               ELSE IF recs.kind \in {"list", "str"}
                      THEN Ok(<<"* " \o FirstRecommendation(c, recs)>>)
                      ELSE Raised
       ELSE Ok(<<>>)

RECURSIVE ComponentRecommendations(_, _)
ComponentRecommendations(results, names) ==
  IF names = <<>>
    THEN Ok(<<>>)
    ELSE LET first == ComponentRecommendation(results, Head(names))
             rest == ComponentRecommendations(results, Tail(names))
         IN IF first.exc \/ rest.exc THEN Raised ELSE Ok(first.val \o rest.val)

generate_final_recommendations(results, strengths, weaknesses) ==
  LET priority == IF Len(weaknesses) > 0
                    THEN <<"Priority Improvements:">>
                           \o AddressAll(Take(weaknesses, TopWeaknesses))
                    ELSE <<>>
      specific == ComponentRecommendations(results, RecommendationComponents)
      strategic == IF Len(strengths) > 2
                     THEN <<"Leverage your strong points to further enhance the presentation">>
                     ELSE <<>>
      llm_detection == GetEntry(results, "llm_detection")
      originality ==
        IF IsDict(llm_detection)
             /\ Truthy(Get(llm_detection.fields, "is_likely_llm_generated", BoolV(FALSE)))
          THEN <<"* Review content for originality and add personal insights">>
          ELSE <<>>
      found == priority \o specific.val \o strategic \o originality
      recommendations ==
        IF specific.exc
          THEN <<"Review all evaluation components for improvement opportunities">>
          ELSE IF Len(found) = 0
                 THEN <<"Continue refining technical details",
                        "Enhance visual presentation quality",
                        "Strengthen problem-solution alignment">>
                 ELSE found
  IN Take(recommendations, MaxRecommendations)

----------------------------------------------------------------------------
(* calculate_final_score *)

\* final_results as first constructed.
InitialFinalResults ==
  [total_score |-> 0,
   normalized_score |-> 0,
   percentage_score |-> 0,
   grade |-> "",
   component_scores |-> <<>>,
   weighted_scores |-> <<>>,
   score_breakdown |-> <<>>,
   strengths |-> <<>>,
   weaknesses |-> <<>>,
   overall_assessment |-> <<>>,
   ranking_factors |-> <<>>,
   recommendations |-> <<>>]

\* The record calculate_final_score returns for the raw results object.  No
\* statement of its try block raises on the values modelled here (the
\* component scores are numbers once extracted and the weights are the
\* configured numbers), so the record carries no 'error' key.
calculate_final_score(results) ==
  LET component_scores == extract_component_scores(results)
      weighted_scores == calculate_weighted_scores(component_scores)
      total_score == TotalScore(weighted_scores)
      normalized == Normalize(total_score)
      strengths == IdentifyStrengths(component_scores)
      weaknesses == IdentifyWeaknesses(component_scores)
  IN [total_score |-> total_score,
      normalized_score |-> normalized,
      percentage_score |-> PercentageScore(normalized),
      grade |-> assign_grade(normalized),
      component_scores |-> component_scores,
      weighted_scores |-> weighted_scores,
      score_breakdown |-> create_score_breakdown(component_scores, weighted_scores),
      strengths |-> strengths,
      weaknesses |-> weaknesses,
      overall_assessment |->
        generate_overall_assessment(normalized, strengths, weaknesses),
      ranking_factors |-> calculate_ranking_factors(results),
      recommendations |->
        generate_final_recommendations(results, strengths, weaknesses)]

----------------------------------------------------------------------------
(* The engine object: __init__ and the methods that read its attributes *)

\* self.max_score = 100.0, in thousandths.
max_score == Percent * OneTotal

\* The ScoringSystem object after __init__.
ScoringSystem ==
  [weights |-> [c \in DOMAIN weights |-> NumV(weights[c])],
   max_score |-> max_score,
   thresholds |-> thresholds]

\* score * weight raises TypeError for a weight that is a string or None.
WeightRaises(weight) == weight.kind \notin {"num", "bool"}

\* The weight as a number of hundredths.
WeightNumber(weight) ==
  IF weight.kind = "bool" THEN weight.v * WeightUnit ELSE weight.v

\* Faulty variant of calculate_weighted_scores_of: each weight is taken with
\* self.weights.pop(component, 0.0), which removes it from the engine.
calculate_weighted_scores_popping(self, component_scores) ==
  IF \E c \in DOMAIN component_scores :
       WeightRaises(Get(self.weights, c, NumV(0)))
    THEN [exc |-> TRUE, val |-> <<>>, self |-> self]
    ELSE [exc |-> FALSE,
          val |-> [c \in DOMAIN component_scores |->
                     WeightedScore(component_scores[c],
                                   WeightNumber(Get(self.weights, c, NumV(0))))],
          self |-> [self EXCEPT
                      !.weights = [c \in DOMAIN @ \ DOMAIN component_scores |-> @[c]]]]

\* self._calculate_weighted_scores(component_scores) on the engine self: the
\* weighted scores or the exception, and the engine after the call (the
\* method stores into its local dict only).
calculate_weighted_scores_of(self, component_scores) ==
  IF \E c \in DOMAIN component_scores :
       WeightRaises(Get(self.weights, c, NumV(0)))
    THEN [exc |-> TRUE, val |-> <<>>, self |-> self]
    ELSE [exc |-> FALSE,
          val |-> [c \in DOMAIN component_scores |->
                     WeightedScore(component_scores[c],
                                   WeightNumber(Get(self.weights, c, NumV(0))))],
          self |-> self]

\* self._create_score_breakdown on the engine self: 'weight' is
\* self.weights.get(component, 0.0).
create_score_breakdown_of(self, component_scores, weighted_scores) ==
  [create_score_breakdown(component_scores, weighted_scores) EXCEPT
     !.components =
       [c \in DOMAIN @ |->
          [@[c] EXCEPT !.weight = WeightNumber(Get(self.weights, c, NumV(0)))]]]

\* calculate_final_score(results) on the engine self, run alone: the record
\* returned and whether it carries the 'error' key.  An exception of
\* _calculate_weighted_scores leaves the try block with only
\* component_scores assigned.
calculate_final_score_of(self, results) ==
  LET component_scores == extract_component_scores(results)
      weighted == calculate_weighted_scores_of(self, component_scores)
      total_score == TotalScore(weighted.val)
      normalized == Normalize(total_score)
      strengths == IdentifyStrengths(component_scores)
      weaknesses == IdentifyWeaknesses(component_scores)
  IN IF weighted.exc
       THEN [error |-> TRUE,
             final_results |->
               [InitialFinalResults EXCEPT !.component_scores = component_scores]]
       ELSE [error |-> FALSE,
             final_results |->
               [total_score |-> total_score,
                normalized_score |-> normalized,
                percentage_score |-> PercentageScore(normalized),
                grade |-> assign_grade(normalized),
                component_scores |-> component_scores,
                weighted_scores |-> weighted.val,
                score_breakdown |->
                  create_score_breakdown_of(self, component_scores, weighted.val),
                strengths |-> strengths,
                weaknesses |-> weaknesses,
                overall_assessment |->
                  generate_overall_assessment(normalized, strengths, weaknesses),
                ranking_factors |-> calculate_ranking_factors(results),
                recommendations |->
                  generate_final_recommendations(results, strengths, weaknesses)]]

----------------------------------------------------------------------------
(* _calculate_ranking_score, in 1/20000 *)

\* Faulty variant of ranking_weights: every factor weighs 0.2.
ranking_weights_equal ==
  [innovation_score |-> 20, technical_depth |-> 20,
   implementation_readiness |-> 20, presentation_quality |-> 20,
   solution_completeness |-> 20]

\* ranking_weights, in hundredths.
ranking_weights ==
  [innovation_score |-> 25, technical_depth |-> 25,
   implementation_readiness |-> 20, presentation_quality |-> 15,
   solution_completeness |-> 15]

\* base_score * 0.7 and ranking_bonus * 0.3, the factors in tenths.
BaseShare == 7
BonusShare == 3

\* The float 1.0 in ranking-score units: a normalized score (thousandths)
\* times a share (tenths) is in 1/10000, a factor (twentieths) times a weight
\* (hundredths) times a share (tenths) is in 1/20000.
RankingOne == 2 * OneTotal * Unit

RECURSIVE RankingBonus(_, _)
\* The loop over ranking_weights: ranking_bonus += factor_score * weight, in
\* 1/2000.  A factor that is a string or None raises.
RankingBonus(ranking_factors, names) ==
  IF names = <<>>
    THEN Ok(NumV(0))
    ELSE LET factor_score == Get(ranking_factors, Head(names), NumV(0))
             rest == RankingBonus(ranking_factors, Tail(names))
         IN IF ~IsNumeric(factor_score) \/ rest.exc
              THEN Raised
              ELSE IF factor_score.kind = "nan" \/ rest.val.kind = "nan"
                     THEN Ok(NanV)
                     ELSE Ok(NumV((IF factor_score.kind = "bool"
                                     THEN factor_score.v * 2 * Unit
                                     ELSE factor_score.v)
                                    * ranking_weights[Head(names)]
                                  + rest.val.v))

\* Faulty variant of calculate_ranking_score: normalized_score and
\* ranking_factors are read from the presentation itself.
calculate_ranking_score_of_element(presentation) ==
  IF ~IsDict(presentation)
    THEN NumV(0)
    ELSE LET base_score ==
               Get(presentation.fields, "normalized_score", NumV(0))
             ranking_factors ==
               Get(presentation.fields, "ranking_factors", Dict(NoFields))
             ranking_bonus ==
               IF IsDict(ranking_factors)
                 THEN RankingBonus(ranking_factors.fields, RankingFactorNames)
                 ELSE Raised
         IN IF ranking_bonus.exc \/ ~IsNumeric(base_score)
              THEN NumV(0)
              ELSE IF base_score.kind = "nan" \/ ranking_bonus.val.kind = "nan"
                     THEN NanV
                     ELSE NumV(Min(
                            (IF base_score.kind = "bool"
                               THEN base_score.v * OneTotal
                               ELSE base_score.v) * BaseShare * 2
                              + ranking_bonus.val.v * BonusShare,
                            RankingOne))

\* self._calculate_ranking_score(presentation): every exception of the body
\* is caught and gives 0.0.
calculate_ranking_score(presentation) ==
  IF ~IsDict(presentation)
    THEN NumV(0)
    ELSE LET final_score == Get(presentation.fields, "final_score", Dict(NoFields))
         IN IF ~IsDict(final_score)
              THEN NumV(0)
              ELSE LET base_score ==
                         Get(final_score.fields, "normalized_score", NumV(0))
                       ranking_factors ==
                         Get(final_score.fields, "ranking_factors", Dict(NoFields))
                       ranking_bonus ==
                         IF IsDict(ranking_factors)
                           THEN RankingBonus(ranking_factors.fields, RankingFactorNames)
                           ELSE Raised
                   IN IF ranking_bonus.exc \/ ~IsNumeric(base_score)
                        THEN NumV(0)
                        ELSE IF base_score.kind = "nan"
                                  \/ ranking_bonus.val.kind = "nan"
                               THEN NanV
                               ELSE NumV(Min(
                                      (IF base_score.kind = "bool"
                                         THEN base_score.v * OneTotal
                                         ELSE base_score.v) * BaseShare * 2
                                        + ranking_bonus.val.v * BonusShare,
                                      RankingOne))

----------------------------------------------------------------------------
(* rank_presentations *)

\* Faulty variant of SetItem: the object is replaced by a dict of this one
\* item.
SetItemAlone(object, name, value) == Dict([n \in {name} |-> value])

\* object[name] = value
SetItem(object, name, value) == Dict(Put(object.fields, name, value))

RECURSIVE ScoreAllRanked(_, _)
\* Faulty variant of ScoreAll: the loop that stores the ranking scores also
\* stores a provisional rank, before the list is sorted.
ScoreAllRanked(objects, list) ==
  IF list = <<>>
    THEN [exc |-> FALSE, objects |-> objects]
    ELSE LET presentation == objects[Head(list)]
             ranking_score == calculate_ranking_score(presentation)
         IN IF ~IsDict(presentation)
              THEN [exc |-> TRUE, objects |-> objects]
              ELSE ScoreAllRanked(
                     [objects EXCEPT
                        ![Head(list)] =
                          SetItem(SetItem(presentation, "ranking_score", ranking_score),
                                  "rank", NumV(Len(list)))],
                     Tail(list))

RECURSIVE ScoreAll(_, _)
\* The first loop: each presentation of the list gets its ranking_score; an
\* element that is not a dict cannot be stored into, and the exception leaves
\* the elements before it changed.
ScoreAll(objects, list) ==
  IF list = <<>>
    THEN [exc |-> FALSE, objects |-> objects]
    ELSE LET presentation == objects[Head(list)]
             ranking_score == calculate_ranking_score(presentation)
         IN IF ~IsDict(presentation)
              THEN [exc |-> TRUE, objects |-> objects]
              ELSE ScoreAll(
                     [objects EXCEPT
                        ![Head(list)] = SetItem(presentation, "ranking_score", ranking_score)],
                     Tail(list))

\* key=lambda x: x.get('ranking_score', 0.0)
SortKey(objects, x) == Get(objects[x].fields, "ranking_score", NumV(0)).v

RECURSIVE InsertAscending(_, _, _)
\* Faulty variant of InsertDescending: the list is sorted in ascending order.
InsertAscending(objects, sorted, x) ==
  IF sorted = <<>>
    THEN <<x>>
    ELSE IF SortKey(objects, Head(sorted)) <= SortKey(objects, x)
           THEN <<Head(sorted)>> \o InsertAscending(objects, Tail(sorted), x)
           ELSE <<x>> \o sorted

RECURSIVE InsertBeforeEqual(_, _, _)
\* Faulty variant of InsertDescending: an element goes before the elements of
\* equal score, so ties come out in reverse order.
InsertBeforeEqual(objects, sorted, x) ==
  IF sorted = <<>>
    THEN <<x>>
    ELSE IF SortKey(objects, Head(sorted)) > SortKey(objects, x)
           THEN <<Head(sorted)>> \o InsertBeforeEqual(objects, Tail(sorted), x)
           ELSE <<x>> \o sorted

RECURSIVE InsertDescending(_, _, _)
\* One step of the stable descending sort: x goes after every element whose
\* score is greater than or equal to its own.
InsertDescending(objects, sorted, x) ==
  IF sorted = <<>>
    THEN <<x>>
    ELSE IF SortKey(objects, Head(sorted)) >= SortKey(objects, x)
           THEN <<Head(sorted)>> \o InsertDescending(objects, Tail(sorted), x)
           ELSE <<x>> \o sorted

RECURSIVE SortedFrom(_, _, _)
SortedFrom(objects, sorted, rest) ==
  IF rest = <<>>
    THEN sorted
    ELSE SortedFrom(objects, InsertDescending(objects, sorted, Head(rest)), Tail(rest))

\* sorted(presentations, key=..., reverse=True): stable, descending.
SortedDescending(objects, list) == SortedFrom(objects, <<>>, list)

RECURSIVE AssignRanks(_, _, _)
\* The second loop: presentation['rank'] = i + 1 over the sorted list
\* (position is 1-based here).
AssignRanks(objects, ranked, position) ==
  IF position > Len(ranked)
    THEN objects
    ELSE AssignRanks(
           [objects EXCEPT
              ![ranked[position]] = SetItem(@, "rank", NumV(position))],
           ranked, position + 1)

\* rank_presentations(list): the objects after the call and the list
\* returned; on an exception the list given is returned.
rank_presentations(objects, list) ==
  LET scored == ScoreAll(objects, list)
  IN IF scored.exc
       THEN [objects |-> scored.objects, returned |-> list]
       ELSE LET ranked == SortedDescending(scored.objects, list)
            IN [objects |-> AssignRanks(scored.objects, ranked, 1),
                returned |-> ranked]

----------------------------------------------------------------------------
(* The raw results objects the engine is run on *)

\* Raw numbers range over -BelowZero .. MaxRaw tenths, so below 0.0, inside
\* [0, 1] and above 1.0.
BelowZero == 1
MaxRaw == 11

\* How many entries of a base results object are replaced at once.
MaxVaried == 1

RawNumbers == (0 - BelowZero)..MaxRaw

ScalarValues == {NumV(n) : n \in RawNumbers} \cup {StrV, NoneV, NanV}

\* The keys of the results object the engine reads: the entries that vary.
InputKeys ==
  {"ps_similarity", "feasibility", "attractiveness", "image_analysis",
   "link_analysis", "llm_detection"}

\* The overall-score field a collaborator's structured result carries.
InputField(k) ==
  IF k = "llm_detection" THEN "overall_llm_probability" ELSE OverallField(k)

\* One entry: absent, a bare value, an empty structured result, or a
\* structured result with its overall field.
EntryShapes ==
  {[shape |-> "missing", val |-> NoneV], [shape |-> "empty", val |-> NoneV]}
    \cup [shape : {"bare", "dict"}, val : ScalarValues]

SetEntry(results, k, sh) ==
  CASE sh.shape = "missing" -> Drop(results, k)
    [] sh.shape = "empty" -> Put(results, k, Dict(NoFields))
    [] sh.shape = "bare" -> Put(results, k, Bare(sh.val))
    [] sh.shape = "dict" ->
         Put(results, k, Dict([f \in {InputField(k)} |-> sh.val]))

RECURSIVE SetEntries(_, _, _)
SetEntries(results, keys, choice) ==
  IF keys = {}
    THEN results
    ELSE LET k == CHOOSE x \in keys : TRUE
         IN SetEntries(SetEntry(results, k, choice[k]), keys \ {k}, choice)

\* {}: every upstream evaluation failed.
EmptyResults == [k \in {} |-> Dict(NoFields)]

\* Scenario 1 of the specification, bare numbers under the component names:
\* llm_penalty is the component's name, not a key the engine reads.
ExampleResults ==
  [ps_similarity |-> Bare(NumV(9)), feasibility |-> Bare(NumV(8)),
   attractiveness |-> Bare(NumV(7)), image_analysis |-> Bare(NumV(6)),
   link_analysis |-> Bare(NumV(5)), llm_penalty |-> Bare(NumV(1))]

\* Every collaborator reports its overall score as 1.0.
AllOnesResults ==
  [k \in InputKeys |-> Dict([f \in {InputField(k)} |-> NumV(Unit)])]

\* Structured results of the shape the collaborators produce.
CollaboratorResults ==
  [ps_similarity |->
     Dict([overall_similarity |-> NumV(8), coverage_score |-> NumV(7),
           relevance_score |-> NumV(9), recommendations |-> ListV(2)]),
   feasibility |->
     Dict([overall_feasibility |-> NumV(7), technical_feasibility |-> NumV(6),
           resource_feasibility |-> NumV(5), timeline_feasibility |-> NumV(4),
           scalability_score |-> NumV(8), recommendations |-> ListV(1)]),
   attractiveness |->
     Dict([overall_attractiveness |-> NumV(6), recommendations |-> ListV(0)]),
   image_analysis |->
     Dict([overall_image_score |-> NumV(5), technical_depth_score |-> NumV(4),
           relevance_score |-> NumV(3), recommendations |-> ListV(1)]),
   link_analysis |->
     Dict([link_quality_score |-> NumV(3), recommendations |-> ListV(1)]),
   llm_detection |->
     Dict([overall_llm_probability |-> NumV(8),
           is_likely_llm_generated |-> BoolV(TRUE)])]

BaseResults == {EmptyResults, ExampleResults, AllOnesResults, CollaboratorResults}

\* The sets of at most MaxVaried keys whose entries are replaced.
VariedKeySets == {T \in SUBSET InputKeys : Cardinality(T) <= MaxVaried}

----------------------------------------------------------------------------
(* The state machine: one call of calculate_final_score *)

\* No list of presentations is being ranked.
NoPresentations ==
  /\ presentation_objects = <<>>
  /\ presentations = <<>>
  /\ ranked_presentations = <<>>

\* The threads that call calculate_final_score on the one engine.
Callers == {"first", "second"}

\* A caller that has not called yet.
IdleCall ==
  [at |-> "idle", evaluation_results |-> <<>>,
   final_results |-> InitialFinalResults, error |-> FALSE]

\* The engine as constructed and no call in progress.
NoCalls ==
  /\ scoring_system = ScoringSystem
  /\ calls = [c \in Callers |-> IdleCall]

Init ==
  /\ \E base \in BaseResults, S \in VariedKeySets :
       \E choice \in [S -> EntryShapes] :
         evaluation_results = SetEntries(base, S, choice)
  /\ final_results = InitialFinalResults
  /\ pc = "ready"
  /\ NoPresentations
  /\ NoCalls

\* calculate_final_score(evaluation_results)
CalculateFinalScoreCall ==
  /\ pc = "ready"
  /\ final_results' = calculate_final_score(evaluation_results)
  /\ pc' = "done"
  /\ UNCHANGED evaluation_results
  /\ UNCHANGED ranking_vars
  /\ UNCHANGED engine_vars

Next == CalculateFinalScoreCall

Spec == Init /\ [][Next]_vars

----------------------------------------------------------------------------
(* _assign_grade on its own: every normalized score in [0.0, 1.0] *)

InitGrade ==
  /\ evaluation_results = EmptyResults
  /\ \E s \in 0..OneTotal :
       final_results = [InitialFinalResults EXCEPT !.normalized_score = s]
  /\ pc = "grading"
  /\ NoPresentations
  /\ NoCalls

\* final_results['grade'] = self._assign_grade(final_results['normalized_score'])
AssignGradeCall ==
  /\ pc = "grading"
  /\ UNCHANGED ranking_vars
  /\ UNCHANGED engine_vars
  /\ final_results' =
       [final_results EXCEPT !.grade = assign_grade(final_results.normalized_score)]
  /\ pc' = "graded"
  /\ UNCHANGED evaluation_results

NextGrade == AssignGradeCall

SpecGrade == InitGrade /\ [][NextGrade]_vars

----------------------------------------------------------------------------
(* calculate_final_score on results objects whose ranking sub-metrics vary *)

\* The collaborator entry each ranking factor is derived from.
FactorSource(factor) ==
  CASE factor = "innovation_score" -> "feasibility"
    [] factor = "technical_depth" -> "image_analysis"
    [] factor = "implementation_readiness" -> "feasibility"
    [] factor = "presentation_quality" -> "attractiveness"
    [] factor = "solution_completeness" -> "ps_similarity"

\* The fields of that entry the factor reads.
FactorFields(factor) ==
  CASE factor = "innovation_score" -> {"technical_feasibility", "scalability_score"}
    [] factor = "technical_depth" -> {"technical_depth_score"}
    [] factor = "implementation_readiness" ->
         {"resource_feasibility", "timeline_feasibility"}
    [] factor = "presentation_quality" -> {"overall_attractiveness"}
    [] factor = "solution_completeness" -> {"coverage_score", "relevance_score"}

\* One field of a structured result: absent, or present with a value.
FieldShapes ==
  {[present |-> FALSE, val |-> NoneV]} \cup [present : {TRUE}, val : ScalarValues]

\* The results object with the fields of choice set in the entry under key:
\* a structured entry gets the fields replaced, an absent entry becomes a
\* structured result of these fields alone, a bare entry has no fields.
SetFields(results, key, choice) ==
  LET old == IF key \in DOMAIN results THEN results[key] ELSE Dict(NoFields)
      kept == {f \in DOMAIN old.fields : f \notin DOMAIN choice}
      set == {f \in DOMAIN choice : choice[f].present}
  IN IF IsDict(old)
       THEN Put(results, key,
                Dict([f \in kept \cup set |->
                        IF f \in set THEN choice[f].val ELSE old.fields[f]]))
       ELSE results

InitFactors ==
  /\ \E base \in BaseResults :
       \E factor \in DOMAIN InitialRankingFactors :
         \E choice \in [FactorFields(factor) -> FieldShapes] :
           evaluation_results = SetFields(base, FactorSource(factor), choice)
  /\ final_results = InitialFinalResults
  /\ pc = "ready"
  /\ NoPresentations
  /\ NoCalls

SpecFactors == InitFactors /\ [][Next]_vars

----------------------------------------------------------------------------
(* calculate_final_score on results objects whose recommendations vary *)

\* The overall scores of these results objects: weak (0.2) and strong (0.9).
RecommendationScores == {2, Unit - 1}

\* The recommendations field of a collaborator's result: absent or a list of
\* two; for the first collaborator also an empty list, a number and a string.
ListShapes == {[present |-> FALSE, val |-> NoneV], [present |-> TRUE, val |-> ListV(2)]}

FirstListShapes ==
  ListShapes
    \cup {[present |-> TRUE, val |-> v] : v \in {ListV(0), NumV(3), StrV}}

\* The is_likely_llm_generated field: absent, True or False.
FlagShapes ==
  {[present |-> FALSE, val |-> NoneV]}
    \cup {[present |-> TRUE, val |-> BoolV(b)] : b \in BOOLEAN}

\* A structured result with its overall score and one more field.
ResultWith(k, score, name, shape) ==
  Dict([f \in {InputField(k)} \cup (IF shape.present THEN {name} ELSE {}) |->
          IF f = InputField(k) THEN NumV(score) ELSE shape.val])

InitRecommendations ==
  /\ \E score \in [InputKeys -> RecommendationScores] :
       \E lists \in [InputKeys \ {"ps_similarity", "llm_detection"} -> ListShapes] :
         \E first \in FirstListShapes, flag \in FlagShapes :
           evaluation_results =
             [k \in InputKeys |->
                IF k = "llm_detection"
                  THEN ResultWith(k, score[k], "is_likely_llm_generated", flag)
                  ELSE ResultWith(k, score[k], "recommendations",
                                  IF k = "ps_similarity" THEN first ELSE lists[k])]
  /\ final_results = InitialFinalResults
  /\ pc = "ready"
  /\ NoPresentations
  /\ NoCalls

SpecRecommendations == InitRecommendations /\ [][Next]_vars

----------------------------------------------------------------------------
(* Concurrent calls of calculate_final_score on one engine *)

\* The weight configurations of the engine: Config.SCORING_WEIGHTS, and the
\* same with one weight of an unexpected type (None or a string).
EngineWeights ==
  {ScoringSystem.weights}
    \cup {Put(ScoringSystem.weights, c, v) :
            c \in {"feasibility", "llm_penalty"}, v \in {NoneV, StrV}}

InitEngine ==
  /\ evaluation_results = EmptyResults
  /\ final_results = InitialFinalResults
  /\ pc = "engine"
  /\ NoPresentations
  /\ \E w \in EngineWeights :
       scoring_system = [ScoringSystem EXCEPT !.weights = w]
  /\ calls = [c \in Callers |-> IdleCall]

\* The other variables of the module stay as they are.
OnlyEngine ==
  UNCHANGED <<evaluation_results, final_results, pc, ranking_vars>>

\* The caller's call moves to position at with its final_results changed.
Advance(c, at, results) ==
  calls' = [calls EXCEPT ![c] = [@ EXCEPT !.at = at, !.final_results = results]]

\* The call is entered: final_results is constructed.
EnterCall(c) ==
  /\ calls[c].at = "idle"
  /\ \E results \in BaseResults :
       calls' = [calls EXCEPT
                   ![c] = [at |-> "extract", evaluation_results |-> results,
                           final_results |-> InitialFinalResults,
                           error |-> FALSE]]
  /\ UNCHANGED scoring_system
  /\ OnlyEngine

\* final_results['component_scores'] = self._extract_component_scores(...)
ExtractStep(c) ==
  /\ calls[c].at = "extract"
  /\ Advance(c, "weigh",
             [calls[c].final_results EXCEPT
                !.component_scores =
                  extract_component_scores(calls[c].evaluation_results)])
  /\ UNCHANGED scoring_system
  /\ OnlyEngine

\* final_results['weighted_scores'] = self._calculate_weighted_scores(...);
\* an exception goes to the except branch, which sets final_results['error']
\* and the record is returned.
WeighStep(c) ==
  /\ calls[c].at = "weigh"
  /\ LET weighted ==
           calculate_weighted_scores_of(scoring_system,
                                        calls[c].final_results.component_scores)
     IN /\ scoring_system' = weighted.self
        /\ IF weighted.exc
             THEN calls' = [calls EXCEPT
                              ![c] = [@ EXCEPT !.at = "returned", !.error = TRUE]]
             ELSE Advance(c, "total",
                          [calls[c].final_results EXCEPT
                             !.weighted_scores = weighted.val])
  /\ OnlyEngine

\* total_score, normalized_score and percentage_score.
TotalStep(c) ==
  /\ calls[c].at = "total"
  /\ LET total_score == TotalScore(calls[c].final_results.weighted_scores)
     IN Advance(c, "grade",
                [calls[c].final_results EXCEPT
                   !.total_score = total_score,
                   !.normalized_score = Normalize(total_score),
                   !.percentage_score = PercentageScore(Normalize(total_score))])
  /\ UNCHANGED scoring_system
  /\ OnlyEngine

\* final_results['grade'] = self._assign_grade(...)
GradeStep(c) ==
  /\ calls[c].at = "grade"
  /\ Advance(c, "breakdown",
             [calls[c].final_results EXCEPT
                !.grade = assign_grade(calls[c].final_results.normalized_score)])
  /\ UNCHANGED scoring_system
  /\ OnlyEngine

\* final_results['score_breakdown'] = self._create_score_breakdown(...)
BreakdownStep(c) ==
  /\ calls[c].at = "breakdown"
  /\ Advance(c, "strengths",
             [calls[c].final_results EXCEPT
                !.score_breakdown =
                  create_score_breakdown_of(scoring_system,
                                            calls[c].final_results.component_scores,
                                            calls[c].final_results.weighted_scores)])
  /\ UNCHANGED scoring_system
  /\ OnlyEngine

\* strengths, weaknesses = self._identify_strengths_weaknesses(...)
StrengthsStep(c) ==
  /\ calls[c].at = "strengths"
  /\ Advance(c, "assessment",
             [calls[c].final_results EXCEPT
                !.strengths = IdentifyStrengths(calls[c].final_results.component_scores),
                !.weaknesses = IdentifyWeaknesses(calls[c].final_results.component_scores)])
  /\ UNCHANGED scoring_system
  /\ OnlyEngine

\* final_results['overall_assessment'] = self._generate_overall_assessment(...)
AssessmentStep(c) ==
  /\ calls[c].at = "assessment"
  /\ Advance(c, "factors",
             [calls[c].final_results EXCEPT
                !.overall_assessment =
                  generate_overall_assessment(calls[c].final_results.normalized_score,
                                              calls[c].final_results.strengths,
                                              calls[c].final_results.weaknesses)])
  /\ UNCHANGED scoring_system
  /\ OnlyEngine

\* final_results['ranking_factors'] = self._calculate_ranking_factors(...)
FactorsStep(c) ==
  /\ calls[c].at = "factors"
  /\ Advance(c, "recommendations",
             [calls[c].final_results EXCEPT
                !.ranking_factors =
                  calculate_ranking_factors(calls[c].evaluation_results)])
  /\ UNCHANGED scoring_system
  /\ OnlyEngine

\* final_results['recommendations'] = ...; return final_results
RecommendationsStep(c) ==
  /\ calls[c].at = "recommendations"
  /\ Advance(c, "returned",
             [calls[c].final_results EXCEPT
                !.recommendations =
                  generate_final_recommendations(calls[c].evaluation_results,
                                                 calls[c].final_results.strengths,
                                                 calls[c].final_results.weaknesses)])
  /\ UNCHANGED scoring_system
  /\ OnlyEngine

NextEngine ==
  \E c \in Callers :
    \/ EnterCall(c)
    \/ ExtractStep(c)
    \/ WeighStep(c)
    \/ TotalStep(c)
    \/ GradeStep(c)
    \/ BreakdownStep(c)
    \/ StrengthsStep(c)
    \/ AssessmentStep(c)
    \/ FactorsStep(c)
    \/ RecommendationsStep(c)

SpecEngine == InitEngine /\ [][NextEngine]_vars

----------------------------------------------------------------------------
(* rank_presentations on lists of presentations *)

\* The longest list ranked.
MaxPresentations == 3

\* Ranking factors as numbers in twentieths: below 0.0, in [0, 1], above 1.0.
FactorNumbers == (0 - 2 * BelowZero)..(2 * MaxRaw)

ZeroFactors == [f \in DOMAIN InitialRankingFactors |-> NumV(0)]

\* The ranking_factors mappings of the records ranked one at a time: empty,
\* all five factors equal, one factor alone, one factor malformed.
FactorMaps ==
  {NoFields}
    \cup {[f \in DOMAIN InitialRankingFactors |-> NumV(x)] : x \in FactorNumbers}
    \cup UNION {{[f \in {g} |-> NumV(x)] : x \in FactorNumbers} :
                g \in DOMAIN InitialRankingFactors}
    \cup {[f \in {g} |-> StrV] : g \in DOMAIN InitialRankingFactors}

\* The normalized scores of those records: 0.0, 0.5, 0.9, 1.0 and a string.
NormalizedValues == {NumV(0), NumV(500), NumV(900), NumV(OneTotal), StrV}

\* A final-score record with the fields the ranking reads.
ScoreRecord(normalized, factors) ==
  Dict([normalized_score |-> normalized, ranking_factors |-> Dict(factors)])

\* A record returned by calculate_final_score, as the dict it is (its
\* numeric fields).
AsDict(record) ==
  Dict([total_score |-> NumV(record.total_score),
        normalized_score |-> NumV(record.normalized_score),
        percentage_score |-> NumV(record.percentage_score),
        component_scores |->
          Dict([c \in DOMAIN record.component_scores |->
                  NumV(record.component_scores[c])]),
        weighted_scores |->
          Dict([c \in DOMAIN record.weighted_scores |->
                  NumV(record.weighted_scores[c])]),
        ranking_factors |-> Dict(record.ranking_factors)])

\* An evaluation result holding its final-score record under 'final_score'.
Embedding(final_score) == Dict([final_score |-> final_score])

\* The presentations ranked one at a time.
SinglePresentations ==
  {Embedding(ScoreRecord(n, f)) : n \in NormalizedValues, f \in FactorMaps}
    \cup {Embedding(Bare(NumV(3))),
          Embedding(Dict([normalized_score |-> NumV(500),
                          ranking_factors |-> Bare(NoneV)])),
          Dict(NoFields)}

\* The elements of the longer lists: records with normalized scores 0.9 and
\* 0.5 and factors 0, one with every factor 1.0, one with a negative factor,
\* the record of the collaborators' results, final-score records that are
\* the element itself (one returned by calculate_final_score, and records
\* with normalized scores 0.9 and 0.5 and factors 0), and an element that is
\* not a dict (None).
ListPresentations ==
  {Embedding(ScoreRecord(NumV(900), ZeroFactors)),
   Embedding(ScoreRecord(NumV(500), ZeroFactors)),
   Embedding(ScoreRecord(NumV(500),
                         [f \in DOMAIN InitialRankingFactors |-> NumV(2 * Unit)])),
   Embedding(ScoreRecord(NumV(0),
                         [f \in {"technical_depth"} |-> NumV(0 - Unit)])),
   Embedding(AsDict(calculate_final_score(CollaboratorResults))),
   AsDict(calculate_final_score(AllOnesResults)),
   ScoreRecord(NumV(900), ZeroFactors),
   ScoreRecord(NumV(500), ZeroFactors),
   Bare(NoneV)}

InitRank ==
  /\ evaluation_results = EmptyResults
  /\ final_results = InitialFinalResults
  /\ pc = "unranked"
  /\ \/ \E n \in 0..MaxPresentations :
          \E objects \in [1..n -> ListPresentations] :
            presentation_objects = objects
     \/ \E object \in SinglePresentations : presentation_objects = <<object>>
  /\ presentations = [i \in DOMAIN presentation_objects |-> i]
  /\ ranked_presentations = <<>>
  /\ NoCalls

\* rank_presentations(list): the first call ranks the caller's list, the
\* second ranks the same list again or the list the first call returned.
RankPresentationsCall ==
  /\ pc \in {"unranked", "ranked"}
  /\ \E list \in (IF pc = "unranked"
                    THEN {presentations}
                    ELSE {presentations, ranked_presentations}) :
       LET result == rank_presentations(presentation_objects, list)
       IN /\ presentation_objects' = result.objects
          /\ ranked_presentations' = result.returned
  /\ pc' = IF pc = "unranked" THEN "ranked" ELSE "ranked_again"
  /\ UNCHANGED <<evaluation_results, final_results, presentations>>
  /\ UNCHANGED engine_vars

NextRank == RankPresentationsCall

SpecRank == InitRank /\ [][NextRank]_vars

----------------------------------------------------------------------------
(* Vocabulary of the properties below, stated on the input and the record *)

Done == pc = "done"

\* The names of the six components.
SixComponents ==
  {"ps_similarity", "feasibility", "attractiveness", "image_analysis",
   "link_analysis", "llm_penalty"}

\* The twelve fields of a final-score record.
TwelveFields ==
  {"total_score", "normalized_score", "percentage_score", "grade",
   "component_scores", "weighted_scores", "score_breakdown", "strengths",
   "weaknesses", "overall_assessment", "ranking_factors", "recommendations"}

\* Where the specification says each component is read from.
StatedKey ==
  [ps_similarity |-> "ps_similarity", feasibility |-> "feasibility",
   attractiveness |-> "attractiveness", image_analysis |-> "image_analysis",
   link_analysis |-> "link_analysis", llm_penalty |-> "llm_detection"]

StatedField ==
  [ps_similarity |-> "overall_similarity",
   feasibility |-> "overall_feasibility",
   attractiveness |-> "overall_attractiveness",
   image_analysis |-> "overall_image_score",
   link_analysis |-> "link_quality_score",
   llm_penalty |-> "overall_llm_probability"]

StatedWeight ==
  [ps_similarity |-> 25, feasibility |-> 20, attractiveness |-> 15,
   image_analysis |-> 15, link_analysis |-> 10, llm_penalty |-> -15]

\* x clamped to [0.0, 1.0], in tenths.
ClampedTenths(x) == IF x < 0 THEN 0 ELSE IF x > 10 THEN 10 ELSE x

Present(c) == StatedKey[c] \in DOMAIN evaluation_results

InputEntry(c) == evaluation_results[StatedKey[c]]

\* The entry of c is a bare number.
BareNumber(c) == Present(c) /\ InputEntry(c).kind = "num"

\* The entry of c is a structured object whose overall field is a number.
StructuredNumber(c) ==
  /\ Present(c)
  /\ InputEntry(c).kind = "dict"
  /\ StatedField[c] \in DOMAIN InputEntry(c).fields
  /\ InputEntry(c).fields[StatedField[c]].kind = "num"

\* The number the entry of c carries.
CarriedNumber(c) ==
  IF BareNumber(c) THEN InputEntry(c).v
  ELSE InputEntry(c).fields[StatedField[c]].v

\* The entry of c is malformed: its bare value or its overall field is
\* neither a number nor absent (a string, or None as the overall field).
Malformed(c) ==
  /\ Present(c)
  /\ \/ c # "llm_penalty" /\ InputEntry(c).kind = "str"
     \/ /\ InputEntry(c).kind = "dict"
        /\ StatedField[c] \in DOMAIN InputEntry(c).fields
        /\ InputEntry(c).fields[StatedField[c]].kind \in {"str", "none"}

NoneMalformed == \A c \in SixComponents : ~Malformed(c)

----------------------------------------------------------------------------
(* C1 *)

\* C1: the returned normalized_score lies in [0.0, 1.0] and equals
\* total_score clamped to that interval, for every raw results object.
C1_NormalizedScoreBounded ==
  Done =>
    /\ final_results.normalized_score >= 0
    /\ final_results.normalized_score <= 1000
    /\ final_results.normalized_score =
         (IF final_results.total_score < 0 THEN 0
          ELSE IF final_results.total_score > 1000 THEN 1000
          ELSE final_results.total_score)

\* A negative total (only the penalty counts) is clamped to 0.0.
C1_Witness ==
  /\ Done
  /\ final_results.total_score < 0
  /\ final_results.normalized_score = 0

----------------------------------------------------------------------------
(* C2 *)

SomeMissing == \E c \in SixComponents : ~Present(c)

\* C2: on an empty or partially populated results object the call returns a
\* complete record (the twelve fields, no error marker, all six component
\* names) in which every missing component has raw score 0.0; when no present
\* entry is malformed, the present numeric entries keep their clamped values
\* (a bare penalty entry aside); the empty object gives normalized_score 0.0,
\* grade D and non-empty weaknesses and overall_assessment.
C2_DefaultSafety ==
  (Done /\ SomeMissing) =>
    /\ DOMAIN final_results = TwelveFields
    /\ DOMAIN final_results.component_scores = SixComponents
    /\ DOMAIN final_results.weighted_scores = SixComponents
    /\ DOMAIN final_results.score_breakdown.components = SixComponents
    /\ final_results.grade \in {"A+", "A", "B+", "B", "C", "D"}
    /\ \A c \in SixComponents :
         ~Present(c) =>
           /\ final_results.component_scores[c] = 0
           /\ final_results.score_breakdown.components[c].raw_score = 0
    /\ NoneMalformed =>
         \A c \in SixComponents :
           (StructuredNumber(c) \/ (BareNumber(c) /\ c # "llm_penalty")) =>
             final_results.component_scores[c] = ClampedTenths(CarriedNumber(c))
    /\ (\A c \in SixComponents : ~Present(c)) =>
         /\ final_results.normalized_score = 0
         /\ final_results.grade = "D"
         /\ final_results.weaknesses # <<>>
         /\ final_results.overall_assessment # <<>>

\* A partially populated object: link_analysis is missing, another component
\* is present with a score above 0.0 that it keeps.
C2_Witness ==
  /\ Done
  /\ ~Present("link_analysis")
  /\ final_results.score_breakdown.components["link_analysis"].raw_score = 0
  /\ \E c \in SixComponents :
       StructuredNumber(c) /\ final_results.component_scores[c] > 0

----------------------------------------------------------------------------
(* C3 *)

\* C3: every extracted component score is in [0.0, 1.0]; when the try block
\* of the extraction completes (no entry is malformed), a structured entry's
\* score is its designated overall field clamped: the number itself in range,
\* 0.0 below 0 and 1.0 above 1.
C3_StructuredFieldClamped ==
  Done =>
    /\ \A c \in SixComponents :
         /\ final_results.component_scores[c] >= 0
         /\ final_results.component_scores[c] <= 10
    /\ NoneMalformed =>
         \A c \in SixComponents :
           StructuredNumber(c) =>
             final_results.component_scores[c] =
               (IF CarriedNumber(c) < 0 THEN 0
                ELSE IF CarriedNumber(c) > 10 THEN 10
                ELSE CarriedNumber(c))

\* A structured penalty entry above 1.0 is clamped to 1.0.
C3_Witness ==
  /\ Done
  /\ StructuredNumber("llm_penalty")
  /\ CarriedNumber("llm_penalty") > 10
  /\ final_results.component_scores["llm_penalty"] = 10

----------------------------------------------------------------------------
(* C4 *)

\* C4 (as stated): for every one of the six components, the penalty read
\* from llm_detection included, a bare number x gives the component score
\* x clamped to [0, 1].
C4_BareNumberUsed ==
  (Done /\ NoneMalformed) =>
    \A c \in SixComponents :
      BareNumber(c) =>
        final_results.component_scores[c] = ClampedTenths(CarriedNumber(c))

----------------------------------------------------------------------------
(* C5 *)

\* C5 (as stated): when exactly one component's entry is malformed and the
\* other five are valid numbers, the malformed component scores 0.0 and each
\* of the other five keeps its own clamped score.
C5_FailureIsolated ==
  Done =>
    \A bad \in SixComponents :
      (/\ Malformed(bad)
       /\ \A c \in SixComponents \ {bad} :
            StructuredNumber(c) \/ (BareNumber(c) /\ c # "llm_penalty")) =>
        /\ final_results.component_scores[bad] = 0
        /\ \A c \in SixComponents \ {bad} :
             final_results.component_scores[c] = ClampedTenths(CarriedNumber(c))

----------------------------------------------------------------------------
(* C6 *)

\* C6: weighted_scores[c] = component_scores[c] * weight[c] under the default
\* weights, total_score is the sum of the six weighted scores and
\* percentage_score = normalized_score * 100; six raw scores of 1.0 give
\* total_score 0.70 and grade B+.
C6_WeightedSum ==
  Done =>
    /\ \A c \in SixComponents :
         final_results.weighted_scores[c] =
           final_results.component_scores[c] * StatedWeight[c]
    /\ final_results.total_score =
         final_results.weighted_scores["ps_similarity"]
           + final_results.weighted_scores["feasibility"]
           + final_results.weighted_scores["attractiveness"]
           + final_results.weighted_scores["image_analysis"]
           + final_results.weighted_scores["link_analysis"]
           + final_results.weighted_scores["llm_penalty"]
    /\ final_results.percentage_score = final_results.normalized_score * 100
    /\ (\A c \in SixComponents : final_results.component_scores[c] = 10) =>
         /\ final_results.total_score = 700
         /\ final_results.grade = "B+"

\* All six raw scores are 1.0.
C6_Witness ==
  /\ Done
  /\ \A c \in SixComponents : final_results.component_scores[c] = 10
  /\ final_results.total_score = 700

----------------------------------------------------------------------------
(* C7 *)

\* The five non-penalty entries of scenario 1, as bare numbers.
ScenarioOneScores ==
  /\ \A c \in SixComponents \ {"llm_penalty"} : BareNumber(c)
  /\ CarriedNumber("ps_similarity") = 9
  /\ CarriedNumber("feasibility") = 8
  /\ CarriedNumber("attractiveness") = 7
  /\ CarriedNumber("image_analysis") = 6
  /\ CarriedNumber("link_analysis") = 5

\* The results object of scenario 1 exactly as stated: the penalty as the
\* bare number 0.1 under the key llm_penalty, and no llm_detection entry.
ScenarioOneAsStated ==
  /\ DOMAIN evaluation_results = SixComponents
  /\ ScenarioOneScores
  /\ evaluation_results["llm_penalty"].kind = "num"
  /\ evaluation_results["llm_penalty"].v = 1

\* C7 (as stated): the results object of scenario 1 gives total_score 0.615,
\* percentage_score 61.5 and grade B.
C7_ScenarioOneAsStated ==
  (Done /\ ScenarioOneAsStated) =>
    /\ final_results.total_score = 615
    /\ final_results.percentage_score = 61500
    /\ final_results.grade = "B"

\* C7 (amended): the key llm_penalty is not read, so the object of scenario 1
\* as stated gives penalty score 0.0, total_score 0.63, percentage_score 63.0
\* and grade B; with the penalty supplied as
\* llm_detection: {overall_llm_probability: 0.1} the same five scores give
\* total_score 0.615, percentage_score 61.5 and grade B.
C7_ScenarioOne ==
  /\ (Done /\ ScenarioOneAsStated) =>
       /\ final_results.component_scores["llm_penalty"] = 0
       /\ final_results.total_score = 630
       /\ final_results.percentage_score = 63000
       /\ final_results.grade = "B"
  /\ (/\ Done
      /\ ScenarioOneScores
      /\ StructuredNumber("llm_penalty")
      /\ CarriedNumber("llm_penalty") = 1) =>
       /\ final_results.component_scores["llm_penalty"] = 1
       /\ final_results.total_score = 615
       /\ final_results.percentage_score = 61500
       /\ final_results.grade = "B"

\* The call has returned for the results object of scenario 1 as stated.
C7_Witness == Done /\ ScenarioOneAsStated /\ final_results.total_score = 630

----------------------------------------------------------------------------
(* C8 *)

\* The grade bands from worst to best.
GradeRank(g) ==
  CASE g = "D" -> 0
    [] g = "C" -> 1
    [] g = "B" -> 2
    [] g = "B+" -> 3
    [] g = "A" -> 4
    [] g = "A+" -> 5

\* C8: the grade of every normalized score s in [0, 1] follows the table
\* (>= 0.90 A+, >= 0.80 A, >= 0.70 B+, >= 0.60 B, >= 0.40 C, else D), is one
\* of the six grades, and no score t <= s has a better grade than s.
C8_GradeTable ==
  pc = "graded" =>
    LET s == final_results.normalized_score
        g == final_results.grade
    IN /\ g \in {"A+", "A", "B+", "B", "C", "D"}
       /\ g = (IF s >= 900 THEN "A+"
               ELSE IF s >= 800 THEN "A"
               ELSE IF s >= 700 THEN "B+"
               ELSE IF s >= 600 THEN "B"
               ELSE IF s >= 400 THEN "C"
               ELSE "D")
       /\ \A t \in 0..s : GradeRank(assign_grade(t)) <= GradeRank(g)

\* The score exactly on the highest threshold has been graded.
C8_Witness ==
  /\ pc = "graded"
  /\ final_results.normalized_score = 900
  /\ final_results.grade = "A+"

----------------------------------------------------------------------------
(* C9 *)

\* The current results object with the penalty's raw score replaced by p.
WithPenalty(p) ==
  [k \in DOMAIN evaluation_results |->
     IF k = "llm_detection"
       THEN IF evaluation_results[k].kind = "dict"
              THEN Dict([f \in DOMAIN evaluation_results[k].fields |->
                           IF f = "overall_llm_probability"
                             THEN NumV(p)
                             ELSE evaluation_results[k].fields[f]])
              ELSE Bare(NumV(p))
       ELSE evaluation_results[k]]

\* The total_score calculate_final_score computes for a results object.
TotalOf(results) ==
  TotalScore(calculate_weighted_scores(extract_component_scores(results)))

\* C9: of two results objects that differ only in the penalty's raw score
\* (both structured, or both bare numbers), the one with the larger penalty
\* score has neither the larger total_score nor the larger normalized_score.
C9_PenaltyDirection ==
  (Done /\ (StructuredNumber("llm_penalty") \/ BareNumber("llm_penalty"))) =>
    \A p \in RawNumbers :
      p >= CarriedNumber("llm_penalty") =>
        /\ TotalOf(WithPenalty(p)) <= final_results.total_score
        /\ Normalize(TotalOf(WithPenalty(p))) <= final_results.normalized_score

\* A larger structured penalty score strictly lowers the normalized score.
C9_Witness ==
  /\ Done
  /\ StructuredNumber("llm_penalty")
  /\ CarriedNumber("llm_penalty") = 1
  /\ Normalize(TotalOf(WithPenalty(2))) < final_results.normalized_score

----------------------------------------------------------------------------
(* C10 *)

\* The sum of |weighted[*]| of the returned record.
AbsWeightedSum ==
  Abs(final_results.weighted_scores["ps_similarity"])
    + Abs(final_results.weighted_scores["feasibility"])
    + Abs(final_results.weighted_scores["attractiveness"])
    + Abs(final_results.weighted_scores["image_analysis"])
    + Abs(final_results.weighted_scores["link_analysis"])
    + Abs(final_results.weighted_scores["llm_penalty"])

ContributionOf(c) == final_results.score_breakdown.components[c].contribution

\* C10: each contribution is |weighted[c]| / sum |weighted[*]| * 100; when
\* some weighted score is nonzero the six contributions sum to 100 (they
\* share the denominator, so their numerators sum to 100 times it); when all
\* are zero every contribution is 0 and nothing is divided by zero.
C10_Contributions ==
  Done =>
    /\ \A c \in SixComponents : ContributionOf(c).den > 0
    /\ AbsWeightedSum > 0 =>
         /\ \A c \in SixComponents :
              /\ ContributionOf(c).num * AbsWeightedSum =
                   Abs(final_results.weighted_scores[c]) * 100 * ContributionOf(c).den
              /\ ContributionOf(c).den = ContributionOf("ps_similarity").den
         /\ ContributionOf("ps_similarity").num + ContributionOf("feasibility").num
              + ContributionOf("attractiveness").num
              + ContributionOf("image_analysis").num
              + ContributionOf("link_analysis").num
              + ContributionOf("llm_penalty").num
              = 100 * ContributionOf("ps_similarity").den
    /\ AbsWeightedSum = 0 =>
         \A c \in SixComponents : ContributionOf(c).num = 0

\* Positive contributions and a negative penalty contribution together.
C10_Witness ==
  /\ Done
  /\ final_results.weighted_scores["llm_penalty"] < 0
  /\ final_results.weighted_scores["ps_similarity"] > 0
  /\ ContributionOf("llm_penalty").num > 0

----------------------------------------------------------------------------
(* Vocabulary of the strengths and weaknesses properties *)

\* The five non-penalty components.
NonPenalty ==
  {"ps_similarity", "feasibility", "attractiveness", "image_analysis",
   "link_analysis"}

\* The fixed component order.
StatedOrder ==
  <<"ps_similarity", "feasibility", "attractiveness", "image_analysis",
    "link_analysis", "llm_penalty">>

\* The phrase each component is called by in a strength or weakness.
StatedPhrase ==
  [ps_similarity |-> "problem statement alignment",
   feasibility |-> "project feasibility",
   attractiveness |-> "presentation design",
   image_analysis |-> "visual content quality",
   link_analysis |-> "supporting links",
   llm_penalty |-> "content originality"]

ExcellentEntry(c) == "Excellent " \o StatedPhrase[c]
GoodEntry(c) == "Good " \o StatedPhrase[c]
PoorEntry(c) == "Poor " \o StatedPhrase[c]

OriginalityStrength == "High content originality (Content Originality)"
AIContentWeakness == "Potential AI-generated content (Content Originality)"

\* How often x occurs in the list.
Count(list, x) == Cardinality({i \in DOMAIN list : list[i] = x})

\* The entries a component can add to either list.
EntriesOf(c) ==
  IF c = "llm_penalty"
    THEN {OriginalityStrength, AIContentWeakness}
    ELSE {ExcellentEntry(c), GoodEntry(c), PoorEntry(c)}

\* The position in the fixed order of the component an entry belongs to
\* (0: the entry belongs to no component).
OwnerIndex(entry) ==
  IF \E i \in 1..6 : entry \in EntriesOf(StatedOrder[i])
    THEN CHOOSE i \in 1..6 : entry \in EntriesOf(StatedOrder[i])
    ELSE 0

ScoreOf(c) == final_results.component_scores[c]

----------------------------------------------------------------------------
(* C11 *)

\* C11: for each of the five non-penalty components, a score >= 0.8 adds
\* exactly one "Excellent ..." strength, a score in [0.6, 0.8) exactly one
\* "Good ..." strength, a score < 0.4 exactly one "Poor ..." weakness and a
\* score in [0.4, 0.6) nothing; the component adds no other entry.
C11_NonPenaltyBands ==
  Done =>
    \A c \in NonPenalty :
      /\ Count(final_results.strengths, ExcellentEntry(c)) =
           (IF ScoreOf(c) >= 8 THEN 1 ELSE 0)
      /\ Count(final_results.strengths, GoodEntry(c)) =
           (IF ScoreOf(c) >= 6 /\ ScoreOf(c) < 8 THEN 1 ELSE 0)
      /\ Count(final_results.weaknesses, PoorEntry(c)) =
           (IF ScoreOf(c) < 4 THEN 1 ELSE 0)
      /\ Count(final_results.strengths, PoorEntry(c)) = 0
      /\ Count(final_results.weaknesses, ExcellentEntry(c)) = 0
      /\ Count(final_results.weaknesses, GoodEntry(c)) = 0
      /\ (ScoreOf(c) >= 4 /\ ScoreOf(c) < 6) =>
           /\ \A i \in DOMAIN final_results.strengths :
                final_results.strengths[i] \notin EntriesOf(c)
           /\ \A i \in DOMAIN final_results.weaknesses :
                final_results.weaknesses[i] \notin EntriesOf(c)

\* One record with a score of exactly 0.8 (Excellent), one of exactly 0.6
\* (Good), one in the middle band (nothing) and one below 0.4 (Poor).
C11_Witness ==
  /\ Done
  /\ \E c \in NonPenalty :
       ScoreOf(c) = 8 /\ Count(final_results.strengths, ExcellentEntry(c)) = 1
  /\ \E c \in NonPenalty :
       ScoreOf(c) = 6 /\ Count(final_results.strengths, GoodEntry(c)) = 1
  /\ \E c \in NonPenalty : ScoreOf(c) >= 4 /\ ScoreOf(c) < 6
  /\ \E c \in NonPenalty :
       ScoreOf(c) < 4 /\ Count(final_results.weaknesses, PoorEntry(c)) = 1

----------------------------------------------------------------------------
(* C12 *)

\* C12: a penalty score < 0.3 adds the originality strength, a penalty score
\* > 0.7 adds the potential-AI-generated-content weakness, a penalty score in
\* [0.3, 0.7] adds nothing, and the penalty component never produces an
\* "Excellent", "Good" or "Poor" entry.
C12_PenaltyPolarity ==
  Done =>
    /\ Count(final_results.strengths, OriginalityStrength) =
         (IF ScoreOf("llm_penalty") < 3 THEN 1 ELSE 0)
    /\ Count(final_results.weaknesses, AIContentWeakness) =
         (IF ScoreOf("llm_penalty") > 7 THEN 1 ELSE 0)
    /\ Count(final_results.weaknesses, OriginalityStrength) = 0
    /\ Count(final_results.strengths, AIContentWeakness) = 0
    /\ \A e \in {ExcellentEntry("llm_penalty"), GoodEntry("llm_penalty"),
                 PoorEntry("llm_penalty")} :
         /\ Count(final_results.strengths, e) = 0
         /\ Count(final_results.weaknesses, e) = 0

\* A penalty score of exactly 0.7 adds nothing to either list.
C12_Witness ==
  /\ Done
  /\ ScoreOf("llm_penalty") = 7
  /\ Count(final_results.strengths, OriginalityStrength) = 0
  /\ Count(final_results.weaknesses, AIContentWeakness) = 0

----------------------------------------------------------------------------
(* C13 *)

\* The entries of the list belong to components in strictly increasing
\* position of the fixed order.
InFixedOrder(list) ==
  /\ \A i \in DOMAIN list : OwnerIndex(list[i]) # 0
  /\ \A i, j \in DOMAIN list : i < j => OwnerIndex(list[i]) < OwnerIndex(list[j])

\* C13: the entries of strengths and of weaknesses appear in the fixed
\* component order ps_similarity, feasibility, attractiveness, image_analysis,
\* link_analysis, llm_penalty, whatever the scores are, the all-defaults
\* fallback after an extraction error included.
C13_FixedOrder ==
  Done =>
    /\ InFixedOrder(final_results.strengths)
    /\ InFixedOrder(final_results.weaknesses)

\* Two strengths of which the later one has the strictly higher score: the
\* list is in component order and not in score order.
C13_Witness ==
  /\ Done
  /\ \E i, j \in DOMAIN final_results.strengths :
       /\ i < j
       /\ OwnerIndex(final_results.strengths[i]) # 0
       /\ OwnerIndex(final_results.strengths[j]) # 0
       /\ ScoreOf(StatedOrder[OwnerIndex(final_results.strengths[i])])
            < ScoreOf(StatedOrder[OwnerIndex(final_results.strengths[j])])

----------------------------------------------------------------------------
(* C14 *)

AllScoresZero == \A c \in SixComponents : ScoreOf(c) = 0

\* C14: when all six component scores are 0.0 the record has total_score 0.0,
\* grade D, exactly five weaknesses (one "Poor ..." entry per non-penalty
\* component) and exactly one strength, the originality strength of the
\* penalty component.
C14_AllZero ==
  (Done /\ AllScoresZero) =>
    /\ final_results.total_score = 0
    /\ final_results.grade = "D"
    /\ Len(final_results.weaknesses) = 5
    /\ \A c \in NonPenalty : Count(final_results.weaknesses, PoorEntry(c)) = 1
    /\ final_results.strengths = <<OriginalityStrength>>

\* The empty results object has been scored.
C14_Witness ==
  /\ Done
  /\ DOMAIN evaluation_results = {}
  /\ AllScoresZero
  /\ Len(final_results.weaknesses) = 5

----------------------------------------------------------------------------
(* Vocabulary of the ranking-factor properties *)

\* The seven sub-metrics the ranking factors are derived from.
SubMetricNames ==
  {"technical_feasibility", "scalability_score", "resource_feasibility",
   "timeline_feasibility", "technical_depth_score", "coverage_score",
   "relevance_score"}

\* Whether the results object has a structured entry under key.
Structured(key) ==
  key \in DOMAIN evaluation_results /\ evaluation_results[key].kind = "dict"

\* The sub-metric of the structured entry under key: absent counts as 0.0.
SubMetric(key, name) ==
  IF name \in DOMAIN evaluation_results[key].fields
    THEN evaluation_results[key].fields[name]
    ELSE [kind |-> "num", v |-> 0]

\* Every sub-metric the results object carries is a number.
SubMetricsNumeric ==
  \A key \in DOMAIN evaluation_results :
    evaluation_results[key].kind = "dict" =>
      \A name \in DOMAIN evaluation_results[key].fields :
        name \in SubMetricNames \cup {"overall_attractiveness"} =>
          evaluation_results[key].fields[name].kind \in {"num", "nan"}

\* The mean of two sub-metrics of the entry under key, in twentieths; the
\* mean with a NaN is NaN; 0.0 without a structured entry under key.
MeanOf(key, first, second) ==
  IF ~Structured(key) THEN [kind |-> "num", v |-> 0]
  ELSE IF SubMetric(key, first).kind = "nan" \/ SubMetric(key, second).kind = "nan"
         THEN [kind |-> "nan", v |-> 0]
         ELSE [kind |-> "num",
               v |-> SubMetric(key, first).v + SubMetric(key, second).v]

\* One sub-metric of the entry under key, in twentieths.
ValueOfSubMetric(key, name) ==
  IF ~Structured(key) THEN [kind |-> "num", v |-> 0]
  ELSE IF SubMetric(key, name).kind = "nan" THEN [kind |-> "nan", v |-> 0]
       ELSE [kind |-> "num", v |-> 2 * SubMetric(key, name).v]

----------------------------------------------------------------------------
(* C15 *)

----------------------------------------------------------------------------
(* C16 *)

\* The current results object with the seven sub-metrics removed from every
\* structured entry: what two objects that differ only in their sub-metrics
\* have in common.
WithoutSubMetrics ==
  [key \in DOMAIN evaluation_results |->
     IF evaluation_results[key].kind = "dict"
       THEN [kind |-> "dict", v |-> 0,
             fields |->
               [name \in DOMAIN evaluation_results[key].fields \ SubMetricNames |->
                  evaluation_results[key].fields[name]]]
       ELSE evaluation_results[key]]

\* Some sub-metric supplied is not a number.
SomeSubMetricMalformed ==
  \E key \in DOMAIN evaluation_results :
    /\ evaluation_results[key].kind = "dict"
    /\ \E name \in DOMAIN evaluation_results[key].fields \cap SubMetricNames :
         evaluation_results[key].fields[name].kind \in {"str", "none"}

\* C16: total_score, normalized_score and grade are the ones of the results
\* object without its sub-metrics, so two objects that agree on the six
\* overall-score fields and differ only in technical_feasibility,
\* scalability_score, resource_feasibility, timeline_feasibility,
\* technical_depth_score, coverage_score or relevance_score (malformed values
\* included) have the same three values.
C16_SubMetricsIgnored ==
  Done =>
    /\ final_results.total_score = TotalOf(WithoutSubMetrics)
    /\ final_results.normalized_score = Normalize(TotalOf(WithoutSubMetrics))
    /\ final_results.grade = assign_grade(Normalize(TotalOf(WithoutSubMetrics)))

\* A malformed sub-metric stopped the ranking-factor computation and the
\* record still has its score and a grade above D.
C16_Witness ==
  /\ Done
  /\ SomeSubMetricMalformed
  /\ final_results.ranking_factors["solution_completeness"].v = 0
  /\ final_results.normalized_score > 0
  /\ final_results.grade = "C"

----------------------------------------------------------------------------
(* Vocabulary of the ranking properties *)

\* rank_presentations has returned.
Ranked == pc \in {"ranked", "ranked_again"}

\* The identities of the presentations.
Identities == DOMAIN presentation_objects

IsMapping(id) == presentation_objects[id].kind = "dict"

HasItem(id, name) ==
  IsMapping(id) /\ name \in DOMAIN presentation_objects[id].fields

\* The ranking_score stored in a presentation, in 1/20000.
RankingScoreOf(id) == presentation_objects[id].fields["ranking_score"].v

\* The final-score record of a presentation.
FinalScoreOf(id) == presentation_objects[id].fields["final_score"]

StatedFactors ==
  {"innovation_score", "technical_depth", "implementation_readiness",
   "presentation_quality", "solution_completeness"}

\* The sub-weights of the ranking factors, in hundredths.
StatedRankingWeight ==
  [innovation_score |-> 25, technical_depth |-> 25,
   implementation_readiness |-> 20, presentation_quality |-> 15,
   solution_completeness |-> 15]

\* The presentation has a final-score record whose normalized_score is a
\* number and whose ranking factors, as far as present, are numbers.
NumericRecord(id) ==
  /\ HasItem(id, "final_score")
  /\ FinalScoreOf(id).kind = "dict"
  /\ "normalized_score" \in DOMAIN FinalScoreOf(id).fields
  /\ FinalScoreOf(id).fields["normalized_score"].kind = "num"
  /\ "ranking_factors" \in DOMAIN FinalScoreOf(id).fields
  /\ FinalScoreOf(id).fields["ranking_factors"].kind = "dict"
  /\ \A f \in StatedFactors \cap DOMAIN FinalScoreOf(id).fields["ranking_factors"].fields :
       FinalScoreOf(id).fields["ranking_factors"].fields[f].kind = "num"

NormalizedOf(id) == FinalScoreOf(id).fields["normalized_score"].v

\* A ranking factor of the record in twentieths, a missing one counted 0.0.
FactorOf(id, f) ==
  IF f \in DOMAIN FinalScoreOf(id).fields["ranking_factors"].fields
    THEN FinalScoreOf(id).fields["ranking_factors"].fields[f].v
    ELSE 0

\* normalized_score and the five ranking factors are all in [0, 1].
RecordInRange(id) ==
  /\ NumericRecord(id)
  /\ NormalizedOf(id) >= 0 /\ NormalizedOf(id) <= 1000
  /\ \A f \in StatedFactors : FactorOf(id, f) >= 0 /\ FactorOf(id, f) <= 20

\* normalized_score * 0.7 + (sum of factor * sub-weight) * 0.3, in 1/20000.
StatedRankingScore(id) ==
  NormalizedOf(id) * 14
    + 3 * (StatedRankingWeight["innovation_score"] * FactorOf(id, "innovation_score")
           + StatedRankingWeight["technical_depth"] * FactorOf(id, "technical_depth")
           + StatedRankingWeight["implementation_readiness"]
               * FactorOf(id, "implementation_readiness")
           + StatedRankingWeight["presentation_quality"]
               * FactorOf(id, "presentation_quality")
           + StatedRankingWeight["solution_completeness"]
               * FactorOf(id, "solution_completeness"))

----------------------------------------------------------------------------
(* C17 *)

\* C17: for a record whose normalized_score and five ranking factors are all
\* in [0, 1], the ranking score is normalized_score * 0.7 + (0.25 *
\* innovation_score + 0.25 * technical_depth + 0.2 * implementation_readiness
\* + 0.15 * presentation_quality + 0.15 * solution_completeness) * 0.3, a
\* missing ranking factor counted as 0.0.
C17_RankingScore ==
  Ranked =>
    \A id \in Identities :
      (RecordInRange(id) /\ HasItem(id, "ranking_score")) =>
        RankingScoreOf(id) = StatedRankingScore(id)

\* A record with normalized_score 0.5, technical_depth alone among its
\* factors and the other four missing has been given its ranking score.
C17_Witness ==
  /\ Ranked
  /\ \E id \in Identities :
       /\ RecordInRange(id)
       /\ HasItem(id, "ranking_score")
       /\ NormalizedOf(id) = 500
       /\ DOMAIN FinalScoreOf(id).fields["ranking_factors"].fields = {"technical_depth"}
       /\ FactorOf(id, "technical_depth") = 10
       /\ RankingScoreOf(id) = 7750

----------------------------------------------------------------------------
(* C18 *)

\* C18 (as stated): every ranking_score assigned is >= 0.0 and <= 1.0, also
\* for records whose ranking factors are negative or greater than 1.
C18_RankingScoreClamped ==
  Ranked =>
    \A id \in Identities :
      HasItem(id, "ranking_score") =>
        /\ RankingScoreOf(id) >= 0
        /\ RankingScoreOf(id) <= 20000

----------------------------------------------------------------------------
(* C19 *)

\* The position of an identity in a list.
PositionIn(list, id) == CHOOSE i \in DOMAIN list : list[i] = id

AllMappings == \A id \in Identities : IsMapping(id)

\* Two elements of the returned list have the same ranking score.
SomeTie ==
  \E i, j \in DOMAIN ranked_presentations :
    /\ i < j
    /\ RankingScoreOf(ranked_presentations[i]) = RankingScoreOf(ranked_presentations[j])

\* C19: rank_presentations returns the records of the input list sorted by
\* ranking_score in descending order, gives the record at each position the
\* rank position + 1 (1-based: the ranks are 1..N, no gaps, no repeats), and
\* records of equal ranking_score keep their relative order of the input.
C19_SortedAndRanked ==
  (Ranked /\ AllMappings) =>
    /\ Len(ranked_presentations) = Len(presentations)
    /\ {ranked_presentations[i] : i \in DOMAIN ranked_presentations} =
         {presentations[i] : i \in DOMAIN presentations}
    /\ \A i, j \in DOMAIN ranked_presentations :
         i < j =>
           /\ ranked_presentations[i] # ranked_presentations[j]
           /\ RankingScoreOf(ranked_presentations[i])
                >= RankingScoreOf(ranked_presentations[j])
           /\ RankingScoreOf(ranked_presentations[i])
                = RankingScoreOf(ranked_presentations[j]) =>
                PositionIn(presentations, ranked_presentations[i])
                  < PositionIn(presentations, ranked_presentations[j])
    /\ \A i \in DOMAIN ranked_presentations :
         /\ HasItem(ranked_presentations[i], "rank")
         /\ presentation_objects[ranked_presentations[i]].fields["rank"].v = i

\* Three records, two of them tied, returned in another order than given.
C19_Witness ==
  /\ Ranked
  /\ AllMappings
  /\ Len(ranked_presentations) = 3
  /\ ranked_presentations # presentations
  /\ SomeTie

----------------------------------------------------------------------------
(* C20 *)

\* The rank a presentation carries (0: none).
RankOf(objects, id) ==
  IF objects[id].kind = "dict" /\ "rank" \in DOMAIN objects[id].fields
    THEN objects[id].fields["rank"].v
    ELSE 0

\* C20: a second call of rank_presentations, on the same list or on the list
\* the first call returned, returns the ordering the first call returned and
\* leaves every record with the rank the first call gave it.
C20_RankingStable ==
  [][(pc = "ranked" /\ pc' = "ranked_again") =>
       /\ ranked_presentations' = ranked_presentations
       /\ \A id \in Identities :
            RankOf(presentation_objects', id) = RankOf(presentation_objects, id)]_vars

\* Three records with a tie have been ranked twice.
C20_Witness ==
  /\ pc = "ranked_again"
  /\ AllMappings
  /\ Len(ranked_presentations) = 3
  /\ ranked_presentations # presentations
  /\ SomeTie
  /\ \A i \in DOMAIN ranked_presentations :
       RankOf(presentation_objects, ranked_presentations[i]) = i

----------------------------------------------------------------------------
(* C25 *)

\* C25: the recommendations list of the returned record has at most 10
\* entries, whatever the weaknesses, per-component recommendations, strengths
\* and AI-detection flag are, and also on the error fallback path.
C25_RecommendationsCapped ==
  Done => Len(final_results.recommendations) <= 10

\* Three weaknesses, the recommendations of all five components and three
\* strengths: eleven entries were collected and ten are returned.
C25_Witness ==
  /\ Done
  /\ Len(final_results.weaknesses) >= 3
  /\ Len(final_results.strengths) > 2
  /\ \A c \in NonPenalty :
       /\ "recommendations" \in DOMAIN evaluation_results[c].fields
       /\ evaluation_results[c].fields["recommendations"].kind = "list"
       /\ evaluation_results[c].fields["recommendations"].v > 0
  /\ "is_likely_llm_generated" \in DOMAIN evaluation_results["llm_detection"].fields
  /\ evaluation_results["llm_detection"].fields["is_likely_llm_generated"].v = 1
  /\ Len(final_results.recommendations) = 10

----------------------------------------------------------------------------
(* C29 *)

OriginalityRecommendation ==
  "* Review content for originality and add personal insights"

\* The llm_detection entry has is_likely_llm_generated set to true.
LikelyGenerated ==
  /\ Present("llm_penalty")
  /\ IsDict(InputEntry("llm_penalty"))
  /\ "is_likely_llm_generated" \in DOMAIN InputEntry("llm_penalty").fields
  /\ InputEntry("llm_penalty").fields["is_likely_llm_generated"] = BoolV(TRUE)

Recommended(text) ==
  \E i \in 1..Len(final_results.recommendations) :
    final_results.recommendations[i] = text

\* The recommendations value of collaborator c, None when there is none.
OwnRecommendations(c) ==
  IF Present(c) /\ IsDict(InputEntry(c))
       /\ "recommendations" \in DOMAIN InputEntry(c).fields
    THEN InputEntry(c).fields["recommendations"]
    ELSE NoneV

\* A recommendations value that is neither a sequence nor empty.
RecommendationsMalformed ==
  \E c \in NonPenalty :
    /\ OwnRecommendations(c).kind \notin {"list", "str", "none"}
    /\ Truthy(OwnRecommendations(c))

\* The entries collected before the originality recommendation: the header
\* and up to three weaknesses, the first recommendation of each component
\* that has one, and the strategic entry when there are over two strengths.
EntriesBeforeOriginality ==
  (IF Len(final_results.weaknesses) > 0
     THEN 1 + Min(3, Len(final_results.weaknesses)) ELSE 0)
  + Cardinality({c \in NonPenalty :
                   /\ OwnRecommendations(c).kind \in {"list", "str"}
                   /\ Truthy(OwnRecommendations(c))})
  + (IF Len(final_results.strengths) > 2 THEN 1 ELSE 0)

\* C29 as stated: whenever the llm_detection entry has
\* is_likely_llm_generated set to true, the returned recommendations contain
\* the originality recommendation (the cap of 10 entries never removes it).
C29_OriginalityAlwaysRecommended ==
  (Done /\ LikelyGenerated) => Recommended(OriginalityRecommendation)

\* C29, amended: with is_likely_llm_generated set to true the originality
\* recommendation is collected last, and the returned list contains it
\* exactly when no recommendations value is malformed and at most nine
\* entries are collected before it; with ten before it the cap removes it.
C29_OriginalityUnlessCapped ==
  (Done /\ LikelyGenerated) =>
    (Recommended(OriginalityRecommendation)
       <=> (~RecommendationsMalformed /\ EntriesBeforeOriginality <= 9))

\* Ten entries precede the originality recommendation and the ten returned
\* do not include it.
C29_Witness ==
  /\ Done
  /\ LikelyGenerated
  /\ ~RecommendationsMalformed
  /\ EntriesBeforeOriginality = 10
  /\ Len(final_results.recommendations) = 10
  /\ ~Recommended(OriginalityRecommendation)

----------------------------------------------------------------------------
(* C26 *)

\* C26: under the default weights the total score is within [-0.15, 0.85],
\* so the normalized score never exceeds 0.85 and the grade A+ (threshold
\* 0.90) is never produced.
C26_TotalRange ==
  Done =>
    /\ final_results.total_score >= -150
    /\ final_results.total_score <= 850
    /\ final_results.normalized_score <= 850
    /\ final_results.grade # "A+"

\* Every non-penalty score is 1.0 and the penalty 0.0: the total is 0.85 and
\* the grade is A.
C26_Witness ==
  /\ Done
  /\ \A c \in NonPenalty : final_results.component_scores[c] = 10
  /\ final_results.component_scores["llm_penalty"] = 0
  /\ final_results.total_score = 850
  /\ final_results.grade = "A"

----------------------------------------------------------------------------
(* C27 *)

PositivePart(x) == IF x > 0 THEN x ELSE 0

\* The sum of the strictly positive weighted scores of the record.
PositiveWeightedSum ==
  PositivePart(final_results.weighted_scores["ps_similarity"])
  + PositivePart(final_results.weighted_scores["feasibility"])
  + PositivePart(final_results.weighted_scores["attractiveness"])
  + PositivePart(final_results.weighted_scores["image_analysis"])
  + PositivePart(final_results.weighted_scores["link_analysis"])
  + PositivePart(final_results.weighted_scores["llm_penalty"])

\* C27: penalty_applied is the absolute value of the weighted llm_penalty,
\* total_achieved is the sum of the strictly positive weighted scores, and
\* total_score = total_achieved - penalty_applied.
C27_BreakdownTotals ==
  Done =>
    /\ final_results.score_breakdown.penalty_applied
         = (IF final_results.weighted_scores["llm_penalty"] < 0
              THEN 0 - final_results.weighted_scores["llm_penalty"]
              ELSE final_results.weighted_scores["llm_penalty"])
    /\ final_results.score_breakdown.total_achieved = PositiveWeightedSum
    /\ final_results.total_score
         = final_results.score_breakdown.total_achieved
             - final_results.score_breakdown.penalty_applied

\* A record with a penalty and with positive weighted scores.
C27_Witness ==
  /\ Done
  /\ final_results.score_breakdown.penalty_applied > 0
  /\ final_results.score_breakdown.total_achieved > 0
  /\ final_results.total_score < final_results.score_breakdown.total_achieved

----------------------------------------------------------------------------
(* C28 *)

\* The sub-metrics the collaborator under key supplies among names are all
\* numbers (an absent or unstructured entry supplies none).
OwnSubMetricsNumeric(key, names) ==
  Structured(key) =>
    \A name \in names \cap DOMAIN evaluation_results[key].fields :
      evaluation_results[key].fields[name].kind \in {"num", "bool", "nan"}

\* C28: each ranking factor depends only on its own collaborator's
\* sub-metrics: a factor whose own collaborator supplies numeric sub-metrics
\* takes the value they determine, whatever malformed sub-metric another
\* collaborator supplies.
C28_FactorsIndependent ==
  Done =>
    /\ OwnSubMetricsNumeric("feasibility",
                            {"technical_feasibility", "scalability_score",
                             "resource_feasibility", "timeline_feasibility"})
         => /\ final_results.ranking_factors["innovation_score"] =
                 MeanOf("feasibility", "technical_feasibility", "scalability_score")
            /\ final_results.ranking_factors["implementation_readiness"] =
                 MeanOf("feasibility", "resource_feasibility", "timeline_feasibility")
    /\ OwnSubMetricsNumeric("image_analysis", {"technical_depth_score"})
         => final_results.ranking_factors["technical_depth"] =
              ValueOfSubMetric("image_analysis", "technical_depth_score")
    /\ OwnSubMetricsNumeric("attractiveness", {"overall_attractiveness"})
         => final_results.ranking_factors["presentation_quality"] =
              ValueOfSubMetric("attractiveness", "overall_attractiveness")
    /\ OwnSubMetricsNumeric("ps_similarity", {"coverage_score", "relevance_score"})
         => final_results.ranking_factors["solution_completeness"] =
              MeanOf("ps_similarity", "coverage_score", "relevance_score")

----------------------------------------------------------------------------
(* C21 *)

\* The element is a final-score record itself: normalized_score and
\* ranking_factors are its own fields.
RecordItself(id) ==
  /\ IsMapping(id)
  /\ ~HasItem(id, "final_score")
  /\ HasItem(id, "normalized_score")
  /\ HasItem(id, "ranking_factors")

\* The element holds its final-score record under 'final_score'.
RecordEmbedded(id) == HasItem(id, "final_score")

\* The normalized score (thousandths) of the element's record, all its
\* ranking factors being 0.
PlainRecord(record, normalized) ==
  /\ record.kind = "dict"
  /\ "normalized_score" \in DOMAIN record.fields
  /\ record.fields["normalized_score"] = NumV(normalized)
  /\ "ranking_factors" \in DOMAIN record.fields
  /\ record.fields["ranking_factors"] = Dict(ZeroFactors)

\* The list given holds exactly the elements a and b.
ListOfTwo(a, b) ==
  /\ Identities = {a, b}
  /\ a # b
  /\ Len(presentations) = 2

\* C21 as stated: the elements are the final-score records themselves, so
\* two records with normalized_score 0.9 and 0.5 and all ranking factors 0
\* receive rank 1 and rank 2 respectively, in whichever order they are given.
C21_RecordsRankedAsGiven ==
  Ranked =>
    \A a, b \in Identities :
      (/\ ListOfTwo(a, b)
       /\ RecordItself(a) /\ PlainRecord(presentation_objects[a], 900)
       /\ RecordItself(b) /\ PlainRecord(presentation_objects[b], 500))
        => /\ RankOf(presentation_objects, a) = 1
           /\ RankOf(presentation_objects, b) = 2

\* C21, amended: the ranking score is computed from the record an element
\* holds under 'final_score'.  Two elements holding records with
\* normalized_score 0.9 and 0.5 and all ranking factors 0 receive rank 1 and
\* rank 2 in whichever order they are given; an element without 'final_score'
\* (a final-score record passed as the element itself) gets ranking_score
\* 0.0, so two such records keep the order they are given in.
C21_EmbeddedRecordsRanked ==
  Ranked =>
    /\ \A a, b \in Identities :
         (/\ ListOfTwo(a, b)
          /\ RecordEmbedded(a) /\ PlainRecord(FinalScoreOf(a), 900)
          /\ RecordEmbedded(b) /\ PlainRecord(FinalScoreOf(b), 500))
           => /\ RankOf(presentation_objects, a) = 1
              /\ RankOf(presentation_objects, b) = 2
    /\ AllMappings =>
         \A id \in Identities :
           ~RecordEmbedded(id) => RankingScoreOf(id) = 0
    /\ \A a, b \in Identities :
         (/\ ListOfTwo(a, b)
          /\ RecordItself(a) /\ RecordItself(b))
           => \A i \in DOMAIN presentations :
                RankOf(presentation_objects, presentations[i]) = i

\* The record with 0.5 was given before the record with 0.9, both as the
\* elements themselves, and has rank 1.
C21_Witness ==
  /\ Ranked
  /\ ListOfTwo(1, 2)
  /\ presentations = <<1, 2>>
  /\ RecordItself(1) /\ PlainRecord(presentation_objects[1], 500)
  /\ RecordItself(2) /\ PlainRecord(presentation_objects[2], 900)
  /\ RankOf(presentation_objects, 1) = 1
  /\ RankOf(presentation_objects, 2) = 2

----------------------------------------------------------------------------
(* C22 *)

WrittenByRanking == {"ranking_score", "rank"}

\* Every item of the object other than ranking_score and rank is in after
\* exactly as it is in before, and no other item is added.
FrameOf(before, after) ==
  IF before.kind = "dict"
    THEN /\ after.kind = "dict"
         /\ DOMAIN after.fields \subseteq DOMAIN before.fields \cup WrittenByRanking
         /\ \A name \in DOMAIN before.fields \ WrittenByRanking :
              /\ name \in DOMAIN after.fields
              /\ after.fields[name] = before.fields[name]
    ELSE after = before

\* C22: a call of rank_presentations leaves every field of each final-score
\* record (total_score, normalized_score, component_scores, weighted_scores,
\* ranking_factors, ...) as it was before the call, and the list it was
\* given as it was; the only data it writes are the ranking_score and the
\* rank of the entries.
C22_RankingFrame ==
  [][(pc' # pc) =>
       /\ presentations' = presentations
       /\ DOMAIN presentation_objects' = DOMAIN presentation_objects
       /\ \A id \in Identities :
            FrameOf(presentation_objects[id], presentation_objects'[id])]_vars

\* A ranked entry still holds the record calculate_final_score returned for
\* the collaborators' results, and has its ranking_score and rank.
C22_Witness ==
  /\ Ranked
  /\ \E id \in Identities :
       /\ HasItem(id, "final_score")
       /\ FinalScoreOf(id) = AsDict(calculate_final_score(CollaboratorResults))
       /\ HasItem(id, "ranking_score")
       /\ RankingScoreOf(id) > 0
       /\ HasItem(id, "rank")

----------------------------------------------------------------------------
(* C30 *)

\* C30: rank_presentations always returns a list; when some element is not a
\* mapping it returns the list it was given, in its original order, and no
\* element carries a rank.
C30_FailureReturnsInput ==
  Ranked =>
    /\ Len(ranked_presentations) = Len(presentations)
    /\ ~AllMappings =>
         /\ ranked_presentations = presentations
         /\ \A id \in Identities : ~HasItem(id, "rank")

\* Three elements, the second not a mapping and the third with the highest
\* score: the list is returned as given, the first element has its
\* ranking_score, the third has none, and none has a rank.
C30_Witness ==
  /\ Ranked
  /\ presentations = <<1, 2, 3>>
  /\ ranked_presentations = presentations
  /\ ~IsMapping(2)
  /\ HasItem(1, "ranking_score")
  /\ RecordEmbedded(1) /\ PlainRecord(FinalScoreOf(1), 500)
  /\ RecordEmbedded(3) /\ PlainRecord(FinalScoreOf(3), 900)
  /\ ~HasItem(3, "ranking_score")
  /\ \A id \in Identities : ~HasItem(id, "rank")

----------------------------------------------------------------------------
(* C23 *)

Returned(c) == calls[c].at = "returned"

\* C23: no statement of calculate_final_score writes an attribute of the
\* engine, and in every interleaving of the callers' statements a call that
\* has returned has the record (and the error mark) the call run alone on
\* the same input returns.
C23_NoSharedState ==
  [][/\ scoring_system' = scoring_system
     /\ \A c \in Callers :
          (calls'[c].at = "returned") =>
            /\ calls'[c].final_results =
                 calculate_final_score_of(scoring_system',
                                          calls'[c].evaluation_results).final_results
            /\ calls'[c].error =
                 calculate_final_score_of(scoring_system',
                                          calls'[c].evaluation_results).error]_vars

\* Both callers have returned, with different inputs and different records.
C23_Witness ==
  /\ Returned("first")
  /\ Returned("second")
  /\ ~calls["first"].error
  /\ calls["first"].evaluation_results # calls["second"].evaluation_results
  /\ calls["first"].final_results.total_score
       # calls["second"].final_results.total_score

----------------------------------------------------------------------------
(* C24 *)

StatedGrades == {"A+", "A", "B+", "B", "C", "D"}

\* A weight of the engine is not a number.
SomeWeightMalformed ==
  \E c \in DOMAIN scoring_system.weights :
    scoring_system.weights[c].kind \in {"str", "none"}

\* The engine with every non-numeric weight replaced by 0.0.
MalformedWeightsZeroed ==
  [scoring_system EXCEPT
     !.weights = [c \in DOMAIN @ |->
                    IF @[c].kind \in {"str", "none"} THEN NumV(0) ELSE @[c]]]

\* C24: a weight of an unexpected non-numeric type is treated as 0.0 and the
\* remaining components are aggregated normally: the record returned has no
\* error, its total is the one computed with that weight as 0.0 and its
\* grade is one of A+, A, B+, B, C, D.
C24_WeightErrorRecovered ==
  \A c \in Callers :
    (Returned(c) /\ SomeWeightMalformed) =>
      /\ ~calls[c].error
      /\ calls[c].final_results.total_score =
           calculate_final_score_of(MalformedWeightsZeroed,
                                    calls[c].evaluation_results).final_results.total_score
      /\ calls[c].final_results.grade \in StatedGrades

====
